---- MODULE Spec2Model ----
(***************************************************************************)
(* EvidenTrace: acquisition-to-manifest integrity pipeline.                *)
(*                                                                         *)
(* Strings and byte buffers are sequences of tokens.  A token is a record  *)
(* [k, v]: k names a literal chunk of text/bytes, v is empty except for    *)
(* the token of a SHA-256 digest, whose v is the digested input.  SHA-256  *)
(* is thereby modelled as collision free: two digests are equal iff their  *)
(* inputs are.  A digest token stands for the 64 lower-case hex characters *)
(* that crypto's digest('hex') returns.                                    *)
(***************************************************************************)
EXTENDS Integers, Sequences, FiniteSets, TLC

\* ------------------------------------------------------------------ bounds
MaxArtifacts == 3      \* longest artifact list of a manifest
MaxRuns == 1           \* verification runs on an acquisition whose files change
MaxEnvSteps == 1       \* changes made to a directory from outside
MaxLogRuns == 3        \* verification runs on an acquisition whose log changes
MaxLogDamage == 1      \* times verification-log.json is damaged from outside

\* ------------------------------------------------------- strings and bytes
Chr(c) == [k |-> c, v |-> <<>>]
Str(c) == <<Chr(c)>>
EmptyString == <<>>

RECURSIVE Join(_)
\* Array.prototype.join('') of a list of strings
Join(list) == IF list = <<>> THEN <<>> ELSE Head(list) \o Join(Tail(list))

\* hashString that returns the content itself instead of its digest
hashString_Raw(content) == content

\* crypto.createHash('sha256').update(content).digest('hex')
hashString(content) == <<[k |-> "sha256", v |-> content]>>

IsHexDigest(s) == Len(s) = 1 /\ s[1].k = "sha256"

\* ------------------------------------------------------------- file system
Acq == {"A", "B"}
CaptureFiles == {"raw-http.html", "screenshot.png"}
LogsFile == "logs.json"
PdfFile == "summary.pdf"
OtsFile == "manifest.json.ots"
ArtifactFiles == CaptureFiles \cup {LogsFile, PdfFile}
AllFiles == ArtifactFiles \cup {OtsFile}

\* st: "ok" (regular readable file), "absent" (ENOENT), "unreadable" (EACCES)
Absent == [st |-> "absent", data |-> <<>>]
File(d) == [st |-> "ok", data |-> d]
Contents == {Str("x"), <<Chr("y"), Chr("y")>>}

\* the message of the error that reading the file raises
ReadError(f) == IF f.st = "absent" THEN Str("ENOENT") ELSE Str("EACCES")

\* hashFile: digest of the file's bytes; rejects when the stream errors
hashFileOk(f) == f.st = "ok"
hashFile(f) == hashString(f.data)

\* ---------------------------------------------------------------- manifest
\* null is the empty sequence, a value v that may be null is <<v>>
Null == <<>>
Some(v) == <<v>>

NoProof == [present |-> FALSE, proofFile |-> "", stampedHash |-> <<>>,
            status |-> "", blockHeight |-> Null, transactionId |-> Null,
            calendarUrls |-> <<>>, errorMessage |-> ""]

\* an artifact as the controller appends it: placeholder hash and size
NewArtifact(name) == [filename |-> name, sha256 |-> EmptyString, sizeBytes |-> 0]

RECURSIVE NewArtifacts(_)
NewArtifacts(names) ==
    IF names = <<>> THEN <<>>
    ELSE <<NewArtifact(Head(names))>> \o NewArtifacts(Tail(names))

NoDir == [f \in AllFiles |-> Absent]

\* generateManifest: the artifact list of the capture results, nothing hashed
\* yet.  seen and sealed are history, not program state: the directory as the
\* last hashing pass read it and the artifact list as that pass left it.
generateManifest(names) ==
    [artifacts |-> NewArtifacts(names),
     masterHash |-> EmptyString,
     timestampProof |-> NoProof,
     seen |-> NoDir,
     sealed |-> <<>>]

NoManifest == generateManifest(<<>>)

Names(arts) == [i \in 1..Len(arts) |-> arts[i].filename]
Hashes(arts) == [i \in 1..Len(arts) |-> arts[i].sha256]
Range(seq) == {seq[i] : i \in 1..Len(seq)}

\* ------------------------------------------------- Integrity Hashing Engine
ErrorHash(msg) == Str("ERROR: ") \o msg

\* HashArtifact with a catch block that rethrows the read error
HashArtifact_Rethrow(artifact, f, vanishes) ==
    IF ~hashFileOk(f)
    THEN [artifact |-> artifact, push |-> <<>>, threw |-> TRUE]
    ELSE IF vanishes
    THEN [artifact |-> [artifact EXCEPT !.sha256 = hashFile(f)],
          push |-> <<hashFile(f)>>, threw |-> TRUE]
    ELSE [artifact |-> [artifact EXCEPT !.sha256 = hashFile(f),
                                        !.sizeBytes = Len(f.data)],
          push |-> <<hashFile(f)>>, threw |-> FALSE]

\* One iteration of the loop of computeArtifactHashes on a file in state f;
\* vanishes: the file is removed after hashFile read it and before stat.
\* push is what the iteration appends to hashList.
HashArtifact(artifact, f, vanishes) ==
    IF ~hashFileOk(f)
    THEN [artifact |-> [artifact EXCEPT !.sha256 = ErrorHash(ReadError(f))],
          push |-> <<>>, threw |-> FALSE]
    ELSE IF vanishes
    THEN [artifact |-> [artifact EXCEPT !.sha256 = ErrorHash(Str("ENOENT"))],
          push |-> <<hashFile(f)>>, threw |-> FALSE]
    ELSE [artifact |-> [artifact EXCEPT !.sha256 = hashFile(f),
                                        !.sizeBytes = Len(f.data)],
          push |-> <<hashFile(f)>>, threw |-> FALSE]

RECURSIVE HashLoop(_, _, _)
\* for (const artifact of manifest.artifacts) { ... }
HashLoop(arts, dir, vanish) ==
    IF arts = <<>>
    THEN [artifacts |-> <<>>, hashList |-> <<>>, threw |-> FALSE]
    ELSE LET name == Head(arts).filename
             r == HashArtifact(Head(arts), dir[name], name \in vanish)
         IN  IF r.threw
             THEN [artifacts |-> <<r.artifact>> \o Tail(arts),
                   hashList |-> r.push, threw |-> TRUE]
             ELSE LET rest == HashLoop(Tail(arts), dir, vanish)
                  IN  [artifacts |-> <<r.artifact>> \o rest.artifacts,
                       hashList |-> r.push \o rest.hashList,
                       threw |-> rest.threw]

\* MasterHashInput that extends the previous master hash instead of starting
\* from the hash list alone (an incremental update)
MasterHashInput_Chained(old, hashList) == old \o Join(hashList)

\* const masterHashInput = hashList.join('')
MasterHashInput(old, hashList) == Join(hashList)

\* computeArtifactHashes(acquisitionPath, manifest); the manifest is updated
\* in place, so an exception leaves the artifacts already processed updated.
computeArtifactHashes(m, dir, vanish) ==
    LET r == HashLoop(m.artifacts, dir, vanish)
    IN  IF r.threw
        THEN [manifest |-> [m EXCEPT !.artifacts = r.artifacts], threw |-> TRUE]
        ELSE [manifest |->
                [m EXCEPT !.artifacts = r.artifacts,
                          !.masterHash =
                              hashString(MasterHashInput(m.masterHash, r.hashList)),
                          !.seen = dir,
                          !.sealed = r.artifacts],
              threw |-> FALSE]

\* the directory after the pass: the files that vanished during it are gone
AfterVanish(dir, vanish) ==
    [f \in AllFiles |-> IF f \in vanish THEN Absent ELSE dir[f]]

\* ------------------------------------------------------ hash verification
\* VerifyArtifact that feeds the stored hash, not the recomputed one, into the
\* master-hash input
VerifyArtifact_PushExpected(artifact, f) ==
    IF hashFileOk(f)
    THEN LET actualHash == hashFile(f)
             status == IF actualHash = artifact.sha256 THEN "pass" ELSE "fail"
         IN  [artifact |-> artifact,
              file |-> [filename |-> artifact.filename,
                        expectedHash |-> artifact.sha256,
                        actualHash |-> actualHash,
                        status |-> status],
              push |-> <<artifact.sha256>>,
              passed |-> status # "fail"]
    ELSE [artifact |-> artifact,
          file |-> [filename |-> artifact.filename,
                    expectedHash |-> artifact.sha256,
                    actualHash |-> EmptyString,
                    status |-> "missing"],
          push |-> <<>>,
          passed |-> FALSE]

\* VerifyArtifact whose catch block does not clear allPassed
VerifyArtifact_MissingPasses(artifact, f) ==
    IF hashFileOk(f)
    THEN LET actualHash == hashFile(f)
             status == IF actualHash = artifact.sha256 THEN "pass" ELSE "fail"
         IN  [artifact |-> artifact,
              file |-> [filename |-> artifact.filename,
                        expectedHash |-> artifact.sha256,
                        actualHash |-> actualHash,
                        status |-> status],
              push |-> <<actualHash>>,
              passed |-> status # "fail"]
    ELSE [artifact |-> artifact,
          file |-> [filename |-> artifact.filename,
                    expectedHash |-> artifact.sha256,
                    actualHash |-> EmptyString,
                    status |-> "missing"],
          push |-> <<>>,
          passed |-> TRUE]

\* VerifyArtifact that stores the recomputed hash in the manifest it was given
VerifyArtifact_Repair(artifact, f) ==
    IF hashFileOk(f)
    THEN LET actualHash == hashFile(f)
             status == IF actualHash = artifact.sha256 THEN "pass" ELSE "fail"
         IN  [artifact |-> [artifact EXCEPT !.sha256 = actualHash],
              file |-> [filename |-> artifact.filename,
                        expectedHash |-> artifact.sha256,
                        actualHash |-> actualHash,
                        status |-> status],
              push |-> <<actualHash>>,
              passed |-> status # "fail"]
    ELSE [artifact |-> artifact,
          file |-> [filename |-> artifact.filename,
                    expectedHash |-> artifact.sha256,
                    actualHash |-> EmptyString,
                    status |-> "missing"],
          push |-> <<>>,
          passed |-> FALSE]

\* One iteration of the loop of CryptoService.verifyHashes.  passed is FALSE
\* when the iteration clears allPassed.
VerifyArtifact(artifact, f) ==
    IF hashFileOk(f)
    THEN LET actualHash == hashFile(f)
             status == IF actualHash = artifact.sha256 THEN "pass" ELSE "fail"
         IN  [artifact |-> artifact,
              file |-> [filename |-> artifact.filename,
                        expectedHash |-> artifact.sha256,
                        actualHash |-> actualHash,
                        status |-> status],
              push |-> <<actualHash>>,
              passed |-> status # "fail"]
    ELSE [artifact |-> artifact,
          file |-> [filename |-> artifact.filename,
                    expectedHash |-> artifact.sha256,
                    actualHash |-> EmptyString,
                    status |-> "missing"],
          push |-> <<>>,
          passed |-> FALSE]

RECURSIVE VerifyLoop_StopAtMissing(_, _)
\* VerifyLoop that leaves the loop at the first file it cannot read
VerifyLoop_StopAtMissing(arts, dir) ==
    IF arts = <<>>
    THEN [artifacts |-> <<>>, files |-> <<>>, hashList |-> <<>>, allPassed |-> TRUE]
    ELSE LET r == VerifyArtifact(Head(arts), dir[Head(arts).filename])
             rest == IF r.file.status = "missing"
                     THEN [artifacts |-> Tail(arts), files |-> <<>>,
                           hashList |-> <<>>, allPassed |-> TRUE]
                     ELSE VerifyLoop_StopAtMissing(Tail(arts), dir)
         IN  [artifacts |-> <<r.artifact>> \o rest.artifacts,
              files |-> <<r.file>> \o rest.files,
              hashList |-> r.push \o rest.hashList,
              allPassed |-> r.passed /\ rest.allPassed]

RECURSIVE VerifyLoop(_, _)
\* for (const artifact of manifest.artifacts) { try { ... } catch { ... } }
VerifyLoop(arts, dir) ==
    IF arts = <<>>
    THEN [artifacts |-> <<>>, files |-> <<>>, hashList |-> <<>>, allPassed |-> TRUE]
    ELSE LET r == VerifyArtifact(Head(arts), dir[Head(arts).filename])
             rest == VerifyLoop(Tail(arts), dir)
         IN  [artifacts |-> <<r.artifact>> \o rest.artifacts,
              files |-> <<r.file>> \o rest.files,
              hashList |-> r.push \o rest.hashList,
              allPassed |-> r.passed /\ rest.allPassed]

\* MasterHashStatus that never reports a mismatch
MasterHashStatus_Skip(actualMasterHash, m) == "pass"

\* the master-hash verdict of verifyHashes
MasterHashStatus(actualMasterHash, m) ==
    IF actualMasterHash = m.masterHash THEN "pass" ELSE "fail"

\* CryptoService.verifyHashes(acquisitionPath, manifest); manifest is the
\* manifest object as the call leaves it.
verifyHashes(m, dir) ==
    LET r == VerifyLoop(m.artifacts, dir)
        actualMasterHash == hashString(Join(r.hashList))
        masterHashStatus == MasterHashStatus(actualMasterHash, m)
        allPassed == r.allPassed /\ masterHashStatus # "fail"
    IN  [overallStatus |-> IF allPassed THEN "pass" ELSE "fail",
         files |-> r.files,
         masterHash |-> [expectedHash |-> m.masterHash,
                         actualHash |-> actualMasterHash,
                         status |-> masterHashStatus],
         manifest |-> [m EXCEPT !.artifacts = r.artifacts]]

\* ------------------------------------------------ Timestamp Proof Protocol
\* the 31 magic bytes of an OpenTimestamps proof file
MagicHex == <<"00", "4f", "70", "65", "6e", "54", "69", "6d", "65", "73",
              "74", "61", "6d", "70", "73", "00", "00", "50", "72", "6f",
              "6f", "66", "00", "bf", "89", "e2", "e8", "84", "e8", "92", "94">>
magicBytes == [i \in 1..Len(MagicHex) |-> Chr(MagicHex[i])]
MagicLen == 31
hashType == Str("08")

\* Buffer.from(hex, 'hex'): the raw bytes that a hex string encodes
FromHex(hex) == <<[k |-> "unhex", v |-> hex]>>

Calendars == <<"cal1", "cal2">>
\* what a calendar answers to POST <url>/digest: HTTP 200 with a body, another
\* 2xx status, or a transport / non-2xx failure that axios throws
Responses == {"200", "204", "throw"}
CalendarBody(url) == Str(url)

RECURSIVE SubmitLoop_NoBreak(_, _, _)
\* SubmitLoop without the break: every calendar is asked, the last 200 wins
SubmitLoop_NoBreak(urls, answer, hashBytes) ==
    IF urls = <<>>
    THEN [found |-> FALSE, otsProofData |-> <<>>, requests |-> <<>>]
    ELSE LET rest == SubmitLoop_NoBreak(Tail(urls), answer, hashBytes)
         IN  IF answer[Head(urls)] = "200" /\ ~rest.found
             THEN [found |-> TRUE,
                   otsProofData |-> magicBytes \o hashType \o hashBytes
                                      \o CalendarBody(Head(urls)),
                   requests |-> <<Head(urls)>> \o rest.requests]
             ELSE [rest EXCEPT !.requests = <<Head(urls)>> \o @]

RECURSIVE SubmitLoop_Accept2xx(_, _, _)
\* SubmitLoop that takes every answer with a body (any 2xx status) as success
SubmitLoop_Accept2xx(urls, answer, hashBytes) ==
    IF urls = <<>>
    THEN [found |-> FALSE, otsProofData |-> <<>>, requests |-> <<>>]
    ELSE IF answer[Head(urls)] \in {"200", "204"}
    THEN [found |-> TRUE,
          otsProofData |-> magicBytes \o hashType \o hashBytes
                             \o CalendarBody(Head(urls)),
          requests |-> <<Head(urls)>>]
    ELSE LET rest == SubmitLoop_Accept2xx(Tail(urls), answer, hashBytes)
         IN  [rest EXCEPT !.requests = <<Head(urls)>> \o @]

RECURSIVE SubmitLoop_NoTag(_, _, _)
\* SubmitLoop that writes the digest without the hash-type byte before it
SubmitLoop_NoTag(urls, answer, hashBytes) ==
    IF urls = <<>>
    THEN [found |-> FALSE, otsProofData |-> <<>>, requests |-> <<>>]
    ELSE IF answer[Head(urls)] = "200"
    THEN [found |-> TRUE,
          otsProofData |-> magicBytes \o hashBytes \o CalendarBody(Head(urls)),
          requests |-> <<Head(urls)>>]
    ELSE LET rest == SubmitLoop_NoTag(Tail(urls), answer, hashBytes)
         IN  [rest EXCEPT !.requests = <<Head(urls)>> \o @]

RECURSIVE SubmitLoop(_, _, _)
\* for (const calendarUrl of calendarUrls) { try { post } catch { warn } }
\* requests: the endpoints posted to, in order
SubmitLoop(urls, answer, hashBytes) ==
    IF urls = <<>>
    THEN [found |-> FALSE, otsProofData |-> <<>>, requests |-> <<>>]
    ELSE IF answer[Head(urls)] = "200"
    THEN [found |-> TRUE,
          otsProofData |-> magicBytes \o hashType \o hashBytes
                             \o CalendarBody(Head(urls)),
          requests |-> <<Head(urls)>>]
    ELSE LET rest == SubmitLoop(Tail(urls), answer, hashBytes)
         IN  [rest EXCEPT !.requests = <<Head(urls)>> \o @]

\* createTimestampProof that leaves the status 'pending' when no calendar
\* answered
createTimestampProof_KeepPending(m, enabled, calendarUrls, answer) ==
    IF ~enabled
    THEN [proof |-> [present |-> TRUE, proofFile |-> "",
                     stampedHash |-> m.masterHash, status |-> "error",
                     blockHeight |-> Null, transactionId |-> Null,
                     calendarUrls |-> <<>>,
                     errorMessage |-> "OpenTimestamps is disabled in configuration"],
          written |-> FALSE, otsProofData |-> <<>>, requests |-> <<>>]
    ELSE LET r == SubmitLoop(calendarUrls, answer, FromHex(m.masterHash))
         IN  [proof |-> [present |-> TRUE, proofFile |-> OtsFile,
                         stampedHash |-> m.masterHash, status |-> "pending",
                         blockHeight |-> Null, transactionId |-> Null,
                         calendarUrls |-> calendarUrls, errorMessage |-> ""],
              written |-> r.found, otsProofData |-> r.otsProofData,
              requests |-> r.requests]

\* createTimestampProof that reports the proof as confirmed in a block as soon
\* as a calendar accepted the digest
createTimestampProof_Confirmed(m, enabled, calendarUrls, answer) ==
    LET r == createTimestampProof_KeepPending(m, enabled, calendarUrls, answer)
    IN  IF r.written
        THEN [r EXCEPT !.proof.status = "confirmed",
                       !.proof.blockHeight = Some(1)]
        ELSE [r EXCEPT !.proof.status = "error"]

\* createTimestampProof that does not look at the enabled flag
createTimestampProof_IgnoreDisabled(m, enabled, calendarUrls, answer) ==
    LET r == SubmitLoop(calendarUrls, answer, FromHex(m.masterHash))
        proof == [present |-> TRUE, proofFile |-> OtsFile,
                  stampedHash |-> m.masterHash, status |-> "pending",
                  blockHeight |-> Null, transactionId |-> Null,
                  calendarUrls |-> calendarUrls, errorMessage |-> ""]
    IN  IF r.found
        THEN [proof |-> proof, written |-> TRUE,
              otsProofData |-> r.otsProofData, requests |-> r.requests]
        ELSE [proof |-> [proof EXCEPT
                  !.status = "error",
                  !.errorMessage =
                      "Failed to obtain timestamp from any calendar server"],
              written |-> FALSE, otsProofData |-> <<>>, requests |-> r.requests]

\* createTimestampProof(acquisitionPath, manifest): the proof returned, the
\* proof file written (if any) and the requests sent
createTimestampProof(m, enabled, calendarUrls, answer) ==
    IF ~enabled
    THEN [proof |-> [present |-> TRUE, proofFile |-> "",
                     stampedHash |-> m.masterHash, status |-> "error",
                     blockHeight |-> Null, transactionId |-> Null,
                     calendarUrls |-> <<>>,
                     errorMessage |-> "OpenTimestamps is disabled in configuration"],
          written |-> FALSE, otsProofData |-> <<>>, requests |-> <<>>]
    ELSE LET hashToStamp == m.masterHash
             r == SubmitLoop(calendarUrls, answer, FromHex(hashToStamp))
             proof == [present |-> TRUE, proofFile |-> OtsFile,
                       stampedHash |-> hashToStamp, status |-> "pending",
                       blockHeight |-> Null, transactionId |-> Null,
                       calendarUrls |-> calendarUrls, errorMessage |-> ""]
         IN  IF r.found
             THEN [proof |-> proof, written |-> TRUE,
                   otsProofData |-> r.otsProofData, requests |-> r.requests]
             ELSE [proof |-> [proof EXCEPT
                       !.status = "error",
                       !.errorMessage =
                           "Failed to obtain timestamp from any calendar server"],
                   written |-> FALSE, otsProofData |-> <<>>,
                   requests |-> r.requests]

\* Slice that returns the whole buffer
Slice_Whole(data, n) == data

\* Buffer.slice(0, n)
Slice(data, n) == SubSeq(data, 1, IF Len(data) < n THEN Len(data) ELSE n)

\* details: {} of a verdict
NoDetails == [filled |-> FALSE, stampedHash |-> <<>>, calendarUrls |-> <<>>]

\* verifyTimestamp that also compares the digest embedded in the proof file
\* with the manifest's stampedHash
verifyTimestamp_CheckDigest(m, dir) ==
    LET proof == m.timestampProof
    IN  IF ~proof.present
        THEN [status |-> "error", message |-> "No timestamp proof found in manifest",
              details |-> NoDetails, manifest |-> m]
        ELSE IF proof.proofFile \notin AllFiles \/ dir[proof.proofFile].st # "ok"
        THEN [status |-> "error", message |-> "Failed to verify timestamp",
              details |-> NoDetails, manifest |-> m]
        ELSE IF \/ Slice(dir[proof.proofFile].data, MagicLen) # magicBytes
                \/ Len(dir[proof.proofFile].data) < MagicLen + 2
                \/ SubSeq(dir[proof.proofFile].data, MagicLen + 2, MagicLen + 2)
                     # FromHex(proof.stampedHash)
        THEN [status |-> "invalid", message |-> "Invalid OTS file format",
              details |-> NoDetails, manifest |-> m]
        ELSE [status |-> "pending",
              message |-> "Timestamp proof is valid but may be pending",
              details |-> [filled |-> TRUE,
                           stampedHash |-> proof.stampedHash,
                           calendarUrls |-> proof.calendarUrls],
              manifest |-> m]

\* CryptoService.verifyTimestamp(acquisitionPath, manifest)
verifyTimestamp(m, dir) ==
    LET proof == m.timestampProof
    IN  IF ~proof.present
        THEN [status |-> "error", message |-> "No timestamp proof found in manifest",
              details |-> NoDetails, manifest |-> m]
        ELSE IF proof.proofFile \notin AllFiles \/ dir[proof.proofFile].st # "ok"
        THEN [status |-> "error", message |-> "Failed to verify timestamp",
              details |-> NoDetails, manifest |-> m]
        ELSE IF Slice(dir[proof.proofFile].data, MagicLen) # magicBytes
        THEN [status |-> "invalid", message |-> "Invalid OTS file format",
              details |-> NoDetails, manifest |-> m]
        ELSE [status |-> "pending",
              message |-> "Timestamp proof is valid but may be pending",
              details |-> [filled |-> TRUE,
                           stampedHash |-> proof.stampedHash,
                           calendarUrls |-> proof.calendarUrls],
              manifest |-> m]

\* structural: what CryptoService.verifyTimestamp returned to the service
NoTimestampResult ==
    [status |-> "", stampedHash |-> <<>>, errorMessage |-> "",
     manifest |-> NoManifest,
     structural |-> [status |-> "", message |-> "", details |-> NoDetails]]

\* ---------------------------------------------------------- verification log
\* verification-log.json: st is "absent", "ok" or "unreadable" (write-only);
\* items are the entries it holds, a Garbage item being bytes that make the
\* file invalid JSON.
NoLog == [st |-> "absent", items |-> <<>>]
Garbage == [timestamp |-> 0, action |-> "#garbage", result |-> ""]
Parsable(log) == \A i \in 1..Len(log.items) : log.items[i] # Garbage
Entries(log) == SelectSeq(log.items, LAMBDA e : e # Garbage)

\* what logVerification continues with after its try { read; parse } catch {}
ExistingLog(log) ==
    IF log.st = "ok" /\ Parsable(log) THEN log.items ELSE <<>>

\* VerificationService.logVerification(acquisitionPath, entry)
logVerification(log, entry) ==
    [st |-> IF log.st = "absent" THEN "ok" ELSE log.st,
     items |-> Append(ExistingLog(log), entry)]

NoHashResult ==
    [overallStatus |-> "", files |-> <<>>,
     masterHash |-> [expectedHash |-> <<>>, actualHash |-> <<>>, status |-> ""],
     manifest |-> NoManifest]

\* ------------------------------------------------------------ EvidenceLogger
\* logEntries is a string of tokens, one per entry: the message, and in v the
\* acquisition whose capture logged it
NoLogger == [logEntries |-> <<>>, acquisitionLogPath |-> ""]
LogEntry(a, message) == [k |-> message, v |-> Str(a)]

\* EvidenceLogger.setAcquisitionLogPath(<directory of a>/logs.json)
setAcquisitionLogPath(lg, a) == [logEntries |-> <<>>, acquisitionLogPath |-> a]

\* EvidenceLogger.log / warn / error
log(lg, a, message) ==
    [lg EXCEPT !.logEntries = Append(@, LogEntry(a, message))]

\* EvidenceLogger.clearLogEntries()
clearLogEntries(lg) == NoLogger

\* EvidenceLogger.persistLogs(): the directories after the call
persistLogs(lg, dirs) ==
    IF lg.acquisitionLogPath # "" /\ Len(lg.logEntries) > 0
    THEN [dirs EXCEPT ![lg.acquisitionLogPath][LogsFile] = File(lg.logEntries)]
    ELSE dirs


\* -------------------------------------- Redirect-Following Capture Engine
\* a URL: an origin (scheme and authority) and a path
Url(origin, path) == [origin |-> origin, path |-> path]
StartUrl == Url("https://a", "/")

\* a Location header value: empty, an absolute URL, a path to resolve against
\* the current URL, or a value that no URL can be made of
Loc(kind, origin, path) == [kind |-> kind, origin |-> origin, path |-> path]
LocationValues ==
    {Loc("empty", "", ""), Loc("malformed", "", ""),
     Loc("absolute", "https://b", "/p"), Loc("relative", "", "/q")}

\* new URL(locationHeader, currentUrl): throws on a value it cannot parse
ResolveThrows(loc) == loc.kind = "malformed"
Resolve(loc, currentUrl) ==
    CASE loc.kind = "absolute" -> Url(loc.origin, loc.path)
      [] loc.kind = "relative" -> Url(currentUrl.origin, loc.path)
      [] OTHER -> currentUrl

Statuses == {200, 204, 300, 301, 302, 303, 304, 307, 308, 404, 500}

\* what axios.get ends with: a response of any status (validateStatus accepts
\* all), or an error thrown (DNS, connection refused, timeout)
Response(status, location) ==
    [kind |-> "response", status |-> status, location |-> location,
     data |-> Str("html")]
TransportError ==
    [kind |-> "error", status |-> 0, location |-> Null, data |-> EmptyString]
Answers ==
    {Response(st, l) : st \in Statuses, l \in {Null} \cup {Some(v) : v \in LocationValues}}
        \cup {TransportError}

\* the headers object of a hop
Headers(response) == [contentType |-> Some("text/html"), location |-> response.location]
EmptyHeaders == [contentType |-> Null, location |-> Null]

\* getLocationHeader(headers): null when the header is absent or empty
getLocationHeader(headers) ==
    IF headers.location = Null \/ headers.location[1].kind = "empty"
    THEN Null
    ELSE headers.location

\* isRedirectStatus that takes every 3xx status for a redirect
isRedirectStatus_Any3xx(status) == status >= 300 /\ status < 400

\* isRedirectStatus(status)
isRedirectStatus(status) == status \in {301, 302, 303, 307, 308}

\* the hop pushed for a response
ResponseHop(currentUrl, response) ==
    [requestUrl |-> currentUrl,
     statusCode |-> response.status,
     headers |-> Headers(response),
     locationHeader |-> getLocationHeader(Headers(response)),
     bodySize |-> Some(Len(response.data))]

\* the hop pushed by the catch block
FailedHop(currentUrl) ==
    [requestUrl |-> currentUrl,
     statusCode |-> 0,
     headers |-> EmptyHeaders,
     locationHeader |-> Null,
     bodySize |-> Null]

MaxRedirectsError(maxRedirects) ==
    [text |-> "Maximum redirects exceeded", url |-> Null, n |-> maxRedirects]
RequestFailedError(currentUrl) ==
    [text |-> "Request failed", url |-> Some(currentUrl), n |-> 0]

NoHttpResult ==
    [finalUrl |-> StartUrl, finalStatusCode |-> 0, finalHeaders |-> EmptyHeaders,
     rawBody |-> EmptyString, redirectChain |-> <<>>, errors |-> <<>>]

\* The state of one call of HttpCaptureService.capture.  state: "idle" (not
\* called), "awaiting" (at the await of axios.get), "returned".  requests and
\* answers are history: the URLs requested and what axios.get ended with.
NoHttp ==
    [state |-> "idle", maxRedirects |-> 0, originalUrl |-> StartUrl,
     currentUrl |-> StartUrl, redirectCount |-> 0, redirectChain |-> <<>>,
     errors |-> <<>>, finalResponse |-> Null, requests |-> <<>>,
     answers |-> <<>>, result |-> NoHttpResult]

\* BuildResult that takes the final URL from currentUrl
BuildResult_CurrentUrl(h) ==
    LET n == Len(h.redirectChain)
    IN  [finalUrl |-> h.currentUrl,
         finalStatusCode |-> IF n = 0 THEN 0 ELSE h.redirectChain[n].statusCode,
         finalHeaders |-> IF n = 0 THEN EmptyHeaders ELSE h.redirectChain[n].headers,
         rawBody |-> IF h.finalResponse = Null THEN EmptyString
                     ELSE h.finalResponse[1].data,
         redirectChain |-> h.redirectChain,
         errors |-> h.errors]

\* const result = { ... }; return result
BuildResult(h) ==
    LET n == Len(h.redirectChain)
    IN  [finalUrl |-> IF n = 0 THEN h.originalUrl
                      ELSE h.redirectChain[n].requestUrl,
         finalStatusCode |-> IF n = 0 THEN 0 ELSE h.redirectChain[n].statusCode,
         finalHeaders |-> IF n = 0 THEN EmptyHeaders ELSE h.redirectChain[n].headers,
         rawBody |-> IF h.finalResponse = Null THEN EmptyString
                     ELSE h.finalResponse[1].data,
         redirectChain |-> h.redirectChain,
         errors |-> h.errors]

Return(h) == [h EXCEPT !.state = "returned", !.result = BuildResult(h)]

\* Iterate that enters the loop once more than the limit allows
Iterate_OneMore(h) ==
    IF h.redirectCount <= h.maxRedirects + 1
    THEN [h EXCEPT !.state = "awaiting", !.requests = Append(@, h.currentUrl)]
    ELSE Return(h)

\* while (redirectCount <= maxRedirects) { ... await axios.get(currentUrl ...
Iterate(h) ==
    IF h.redirectCount <= h.maxRedirects
    THEN [h EXCEPT !.state = "awaiting", !.requests = Append(@, h.currentUrl)]
    ELSE Return(h)

\* OnError without the break: the loop goes on with the same URL
OnError_Continue(h) ==
    Iterate([h EXCEPT !.errors = Append(@, RequestFailedError(h.currentUrl)),
                      !.redirectChain = Append(@, FailedHop(h.currentUrl))])

\* the catch block: record the error and the failed hop, break
OnError(h) ==
    Return([h EXCEPT !.errors = Append(@, RequestFailedError(h.currentUrl)),
                     !.redirectChain = Append(@, FailedHop(h.currentUrl))])

\* the try block after axios.get has returned a response
OnResponse(h, response) ==
    LET hop == ResponseHop(h.currentUrl, response)
        pushed == [h EXCEPT !.redirectChain = Append(@, hop)]
    IN  IF isRedirectStatus(response.status) /\ hop.locationHeader # Null
        THEN IF ResolveThrows(hop.locationHeader[1])
             THEN OnError(pushed)
             ELSE LET next == [pushed EXCEPT
                                  !.currentUrl = Resolve(hop.locationHeader[1], @),
                                  !.redirectCount = @ + 1]
                  IN  IF next.redirectCount > next.maxRedirects
                      THEN Return([next EXCEPT !.errors =
                                      Append(@, MaxRedirectsError(next.maxRedirects))])
                      ELSE Iterate(next)
        ELSE Return([pushed EXCEPT !.finalResponse = Some(response)])

\* ------------------------------------------------ CaptureController.capture
\* an entry of an errors list that a capture phase reports
CaptureError(text) == [text |-> text, url |-> Null, n |-> 0]

\* the outcome of POST /api/capture: status 0 while the request runs, 200 with
\* the CaptureResponse, or the HttpException thrown (400, 500)
NoResponse ==
    [status |-> 0, success |-> FALSE, hasManifest |-> FALSE,
     manifest |-> NoManifest, errors |-> <<>>]

\* throw new HttpException('Invalid URL provided', HttpStatus.BAD_REQUEST)
BadRequest == [NoResponse EXCEPT !.status = 400]

\* throw new HttpException('Capture failed: ...', INTERNAL_SERVER_ERROR)
InternalServerError == [NoResponse EXCEPT !.status = 500]

\* Success that ignores the errors collected
Success_Always(errors) == TRUE

\* success: errors.length === 0
Success(errors) == Len(errors) = 0

\* const response: CaptureResponse = { success, ..., manifest, errors }
CaptureResponse(m, errors) ==
    [status |-> 200, success |-> Success(errors), hasManifest |-> TRUE,
     manifest |-> m, errors |-> errors]

\* ValidUrl that accepts every string
ValidUrl_Any(url) == TRUE

\* try { new URL(dto.url) } catch { throw 400 }
ValidUrl(url) == url # "malformed"

\* The locals of one call of CaptureController.capture.  url: dto.url;
\* created: createAcquisitionDirectory has run; network: a request to the
\* target or to a calendar was issued (history); httpErrors, browserErrors:
\* the errors of httpResult and browserResult; errors: the controller's list.
NoRequest ==
    [url |-> "", created |-> FALSE, network |-> FALSE, httpErrors |-> <<>>,
     browserErrors |-> <<>>, errors |-> <<>>, response |-> NoResponse]

\* ---------------------------------------------------- BrowserCaptureService
\* the capture calls that may overlap
Calls == {"c1", "c2"}

\* The locals of one call of BrowserCaptureService.capture.  pc: the await at
\* which the call stands, "returned" or "threw"; browser: the instance that
\* ensureBrowser returned; context, page: "none", "open" or "closed".
NoBrowserCall ==
    [pc |-> "idle", browser |-> Null, context |-> "none", page |-> "none",
     errors |-> <<>>]

\* The service: browser is this.browser (null or an instance); the instances
\* launched are 1..launched, closed holds those that were closed (history);
\* destroyed: onModuleDestroy has run.
NoBrowserService ==
    [browser |-> Null, launched |-> 0, closed |-> {}, destroyed |-> FALSE,
     calls |-> [c \in Calls |-> NoBrowserCall]]

\* ------------------------------------------- overlapping verification runs
Runs == {"hashes", "ots"}

\* The locals of one verification run.  pc: "idle", "read" (at the await of
\* readFile in logVerification), "write" (at the await of writeFile), "done";
\* entry: the entry it logs; existingLog: what it parsed from the file.
NoRun == [pc |-> "idle", entry |-> Garbage, existingLog |-> <<>>]

\* ==================================================================== state
VARIABLES
    files,            \* [Acq -> [AllFiles -> file]]: the acquisition directories
    manifest,         \* [Acq -> manifest]: the manifest object of a capture
    manifestJson,     \* [Acq -> [exists, m]]: manifest.json
    verificationLog,  \* [Acq -> log]: verification-log.json
    logged,           \* [Acq -> Seq(entry)]: history of the entries logged
    hashResult,       \* what verifyHashes returned, if it made the last step
    tsResult,         \* what verifyTimestamp returned, if it made the last step
    lastOp,           \* the operation that made the last step
    envSteps,         \* number of changes made from outside so far
    otsEnabled,       \* configuration: openTimestamps.enabled
    pc,               \* [Acq -> the await at which its capture request stands]
    options,          \* [Acq -> the options of its capture request]
    logger,           \* the EvidenceLogger singleton
    http,             \* a call of HttpCaptureService.capture
    req,              \* [Acq -> the capture request: its locals and its response]
    browserSvc,       \* the BrowserCaptureService singleton and its capture calls
    runs              \* [Runs -> a verification run: its position and its locals]

capVars == <<pc, options, logger, http, req, browserSvc, runs>>

vars == <<files, manifest, manifestJson, verificationLog, logged, hashResult,
          tsResult, lastOp, envSteps, otsEnabled, pc, options, logger, http, req,
          browserSvc, runs>>

\* what a call of createTimestampProof was given and did: the configuration,
\* the calendars' answers, the requests sent in order, the proof file before
\* and after the call, and the proof returned
NoCall == [enabled |-> FALSE, answer |-> [u \in {} |-> ""], requests |-> <<>>,
           before |-> Absent, after |-> Absent, proof |-> NoProof]

\* again: the step is a hashing pass that directly follows a hashing pass of
\* the same manifest and reads the directory that one left
\* call: the call of createTimestampProof, if the step is one
Op(name, a, threw) ==
    [op |-> name, acq |-> a, threw |-> threw, again |-> FALSE, call |-> NoCall]

NoResult == hashResult' = NoHashResult /\ tsResult' = NoTimestampResult

\* ------------------------------------------------------ the services' calls
Hashed(m) == m.sealed # <<>>
Finalized(m) == Hashed(m) /\ Names(m.sealed) = Names(m.artifacts)

\* the capture of an acquisition runs before its directory is handed over,
\* and it ends with a saveManifest
Capturing(a) == envSteps = 0 /\ logged[a] = <<>>

\* cryptoService.computeArtifactHashes(acquisitionPath, manifest)
ComputeArtifactHashes(a) ==
    /\ Capturing(a)
    /\ \E vanish \in {{}} \cup {{f} : f \in {n \in Range(Names(manifest[a].artifacts)) :
                                          files[a][n].st = "ok"}} :
        LET r == computeArtifactHashes(manifest[a], files[a], vanish)
        IN  /\ manifest' = [manifest EXCEPT ![a] = r.manifest]
            /\ files' = [files EXCEPT ![a] = AfterVanish(files[a], vanish)]
            /\ lastOp' = [Op("computeArtifactHashes", a, r.threw) EXCEPT
                              !.again = /\ lastOp.op = "computeArtifactHashes"
                                        /\ lastOp.acq = a
                                        /\ manifest[a].seen = files[a]
                                        /\ vanish = {}]
    /\ NoResult
    /\ UNCHANGED <<manifestJson, verificationLog, logged, envSteps, otsEnabled, capVars>>

\* manifest.artifacts.push({ filename, sizeBytes: 0, sha256: '' })
NextAppended(m) ==
    IF LogsFile \notin Range(Names(m.artifacts)) THEN LogsFile ELSE PdfFile

AppendArtifact(a) ==
    /\ Capturing(a)
    /\ Hashed(manifest[a])
    /\ Len(manifest[a].artifacts) < MaxArtifacts
    /\ NextAppended(manifest[a]) \notin Range(Names(manifest[a].artifacts))
    /\ manifest' = [manifest EXCEPT ![a].artifacts =
                        Append(@, NewArtifact(NextAppended(manifest[a])))]
    /\ lastOp' = Op("push", a, FALSE)
    /\ NoResult
    /\ UNCHANGED <<files, manifestJson, verificationLog, logged, envSteps,
                   otsEnabled, capVars>>

\* cryptoService.createTimestampProof, then manifest.timestampProof = proof
CreateTimestampProof(a) ==
    /\ Capturing(a)
    /\ Hashed(manifest[a])
    /\ ~manifest[a].timestampProof.present
    /\ \E answer \in [Range(Calendars) -> Responses] :
         LET r == createTimestampProof(manifest[a], otsEnabled, Calendars, answer)
         IN  /\ manifest' = [manifest EXCEPT ![a].timestampProof = r.proof]
             /\ files' = IF r.written
                         THEN [files EXCEPT ![a][OtsFile] = File(r.otsProofData)]
                         ELSE files
             /\ lastOp' = [Op("createTimestampProof", a, FALSE) EXCEPT
                               !.call = [enabled |-> otsEnabled,
                                         answer |-> answer,
                                         requests |-> r.requests,
                                         before |-> files[a][OtsFile],
                                         after |-> files'[a][OtsFile],
                                         proof |-> r.proof]]
    /\ NoResult
    /\ UNCHANGED <<manifestJson, verificationLog, logged, envSteps, otsEnabled, capVars>>

\* evidenceService.saveManifest / loadManifest: manifest.json holds the
\* manifest as JSON; strings and numbers survive stringify and parse unchanged
saveManifest(m) == [exists |-> TRUE, m |-> m]
loadManifest(json) == json.m

SaveManifest(a) ==
    /\ Capturing(a)
    /\ Finalized(manifest[a])
    /\ manifestJson[a] # saveManifest(manifest[a])
    /\ manifestJson' = [manifestJson EXCEPT ![a] = saveManifest(manifest[a])]
    /\ lastOp' = Op("saveManifest", a, FALSE)
    /\ NoResult
    /\ UNCHANGED <<files, manifest, verificationLog, logged, envSteps, otsEnabled, capVars>>

HandedOver(a) ==
    /\ manifestJson[a].exists
    /\ Capturing(a) => manifestJson[a] = saveManifest(manifest[a])

\* VerificationService.verifyHashes(acquisitionId)
VerifyHashes(a) ==
    /\ HandedOver(a)
    /\ LET result == verifyHashes(loadManifest(manifestJson[a]), files[a])
           entry == [timestamp |-> Len(logged[a]) + 1,
                     action |-> "hash_verification",
                     result |-> result.overallStatus]
       IN  /\ hashResult' = result
           /\ verificationLog' = [verificationLog EXCEPT ![a] =
                                      logVerification(@, entry)]
           /\ logged' = [logged EXCEPT ![a] = Append(@, entry)]
    /\ tsResult' = NoTimestampResult
    /\ lastOp' = Op("verifyHashes", a, FALSE)
    /\ UNCHANGED <<files, manifest, manifestJson, envSteps, otsEnabled, capVars>>

\* VerificationService.verifyTimestamp(acquisitionId)
VerifyTimestamp(a) ==
    /\ HandedOver(a)
    /\ LET m == loadManifest(manifestJson[a])
           r == verifyTimestamp(m, files[a])
           result == [status |-> r.status,
                      stampedHash |-> r.manifest.timestampProof.stampedHash,
                      errorMessage |-> IF r.status = "error" THEN r.message ELSE "",
                      manifest |-> r.manifest,
                      structural |-> [status |-> r.status, message |-> r.message,
                                      details |-> r.details]]
           entry == [timestamp |-> Len(logged[a]) + 1,
                     action |-> "timestamp_verification",
                     result |-> result.status]
       IN  /\ tsResult' = result
           /\ verificationLog' = [verificationLog EXCEPT ![a] =
                                      logVerification(@, entry)]
           /\ logged' = [logged EXCEPT ![a] = Append(@, entry)]
    /\ hashResult' = NoHashResult
    /\ lastOp' = Op("verifyTimestamp", a, FALSE)
    /\ UNCHANGED <<files, manifest, manifestJson, envSteps, otsEnabled, capVars>>

\* ------------------------------------------- changes made from the outside
EnvStep(name, a, max) ==
    /\ HandedOver(a)
    /\ envSteps < max
    /\ envSteps' = envSteps + 1
    /\ lastOp' = Op(name, a, FALSE)
    /\ NoResult

\* the bytes of an artifact file are changed
Tamper(a) ==
    /\ EnvStep("tamper", a, MaxEnvSteps)
    /\ \E f \in ArtifactFiles, c \in Contents :
         /\ files[a][f].st = "ok"
         /\ files[a][f].data # c
         /\ files' = [files EXCEPT ![a][f] = File(c)]
    /\ UNCHANGED <<manifest, manifestJson, verificationLog, logged, otsEnabled, capVars>>

\* an artifact file is deleted, or made unreadable
Remove(a) ==
    /\ EnvStep("remove", a, MaxEnvSteps)
    /\ \E f \in ArtifactFiles :
         /\ files[a][f].st = "ok"
         /\ \/ files' = [files EXCEPT ![a][f] = Absent]
            \/ files' = [files EXCEPT ![a][f].st = "unreadable"]
    /\ UNCHANGED <<manifest, manifestJson, verificationLog, logged, otsEnabled, capVars>>

Permute(seq, p) == [i \in 1..Len(seq) |-> seq[p[i]]]

\* the artifact list of manifest.json is put in another order
Reorder(a) ==
    /\ EnvStep("reorder", a, MaxEnvSteps)
    /\ \E p \in Permutations(1..Len(manifestJson[a].m.artifacts)) :
         /\ \E i \in DOMAIN p : p[i] # i
         /\ manifestJson' = [manifestJson EXCEPT ![a].m.artifacts = Permute(@, p)]
    /\ UNCHANGED <<files, manifest, verificationLog, logged, otsEnabled, capVars>>

\* verification-log.json is damaged (bytes that do not parse are added to it)
\* or loses its read permission
DamageLog(a) ==
    /\ EnvStep("damageLog", a, MaxLogDamage)
    /\ verificationLog[a].st = "ok"
    /\ \/ /\ Parsable(verificationLog[a])
          /\ verificationLog' = [verificationLog EXCEPT ![a].items = Append(@, Garbage)]
       \/ verificationLog' = [verificationLog EXCEPT ![a].st = "unreadable"]
    /\ UNCHANGED <<files, manifest, manifestJson, logged, otsEnabled, capVars>>

\* the proof file is overwritten with bytes that are no proof (too short, or
\* long enough), its bytes after the magic prefix are replaced, it is deleted,
\* or it loses its read permission
DamageProof(a) ==
    /\ EnvStep("damageProof", a, MaxLogDamage)
    /\ files[a][OtsFile].st = "ok"
    /\ \/ files' = [files EXCEPT ![a][OtsFile] = File(Str("x"))]
       \/ files' = [files EXCEPT ![a][OtsFile] = File(Str("x") \o Tail(@.data))]
       \/ files' = [files EXCEPT ![a][OtsFile] = File(magicBytes \o Str("x"))]
       \/ files' = [files EXCEPT ![a][OtsFile] = Absent]
       \/ files' = [files EXCEPT ![a][OtsFile].st = "unreadable"]
    /\ UNCHANGED <<manifest, manifestJson, verificationLog, logged, otsEnabled, capVars>>

\* ----------------------------------- hashing and hash verification (Spec)
SvcAcq == {"A"}

NameLists ==
    {<<n>> : n \in CaptureFiles}
      \cup {<<p[1], p[2]>> : p \in {q \in CaptureFiles \X CaptureFiles : q[1] # q[2]}}

InitFiles ==
    {Absent, File(Str("x")), File(<<Chr("y"), Chr("y")>>),
     [st |-> "unreadable", data |-> Str("x")]}

InitDirs ==
    {d \in [AllFiles -> InitFiles] :
        /\ d[LogsFile] = File(Str("x"))
        /\ d[PdfFile] = File(Str("x"))
        /\ d[OtsFile] = Absent}

\* nothing has run: no manifest.json, no log, no request in progress
InitServices ==
    /\ manifestJson = [a \in Acq |-> [exists |-> FALSE, m |-> NoManifest]]
    /\ verificationLog = [a \in Acq |-> NoLog]
    /\ logged = [a \in Acq |-> <<>>]
    /\ hashResult = NoHashResult
    /\ tsResult = NoTimestampResult
    /\ lastOp = Op("init", "A", FALSE)
    /\ envSteps = 0
    /\ options = [a \in Acq |-> [generatePdf |-> FALSE]]
    /\ logger = NoLogger
    /\ http = NoHttp
    /\ req = [a \in Acq |-> NoRequest]
    /\ browserSvc = NoBrowserService
    /\ runs = [r \in Runs |-> NoRun]

InitCommon ==
    /\ pc = [a \in Acq |-> "idle"]
    /\ InitServices

Init ==
    /\ \E d \in InitDirs : files = [a \in Acq |-> IF a \in SvcAcq THEN d ELSE NoDir]
    /\ \E names \in NameLists :
         manifest = [a \in Acq |-> IF a \in SvcAcq THEN generateManifest(names)
                                   ELSE NoManifest]
    /\ otsEnabled = FALSE
    /\ InitCommon

Next ==
    \E a \in SvcAcq :
        \/ ComputeArtifactHashes(a)
        \/ AppendArtifact(a)
        \/ SaveManifest(a)
        \/ VerifyHashes(a) /\ Len(logged[a]) < MaxRuns
        \/ Tamper(a)
        \/ Remove(a)
        \/ Reorder(a)

Spec == Init /\ [][Next]_vars

\* ------------------------------------------- the verification log (SpecLog)
InitLog ==
    /\ files = [a \in Acq |-> IF a \in SvcAcq
                              THEN [f \in AllFiles |->
                                      IF f \in CaptureFiles THEN File(Str("x"))
                                      ELSE Absent]
                              ELSE NoDir]
    /\ manifest = [a \in Acq |-> IF a \in SvcAcq
                                 THEN generateManifest(<<"raw-http.html">>)
                                 ELSE NoManifest]
    /\ otsEnabled \in BOOLEAN
    /\ InitCommon

NextLog ==
    \E a \in SvcAcq :
        \/ ComputeArtifactHashes(a)
        \/ CreateTimestampProof(a)
        \/ SaveManifest(a)
        \/ VerifyHashes(a) /\ Len(logged[a]) < MaxLogRuns
        \/ VerifyTimestamp(a) /\ Len(logged[a]) < MaxLogRuns
        \/ Tamper(a)
        \/ DamageLog(a)
        \/ DamageProof(a)

SpecLog == InitLog /\ [][NextLog]_vars

\* -------------------------------- CaptureController.capture (SpecPipeline)
\* One action per stretch of the handler between two awaits; concurrent
\* requests interleave at the awaits and share the logger.  An await of
\* saveManifest, which reads and writes nothing but the request's own manifest
\* and manifest.json, is part of the action before it.  The entries are
\* those the controller logs; the requests are valid ones with browserCapture
\* and generateZip on.
HttpFile == "raw-http.html"
ScreenshotFile == "screenshot.png"

\* the artifact list that generateManifest builds from the capture results:
\* the capture files present in the directory
CapturedNames(dir) ==
    SelectSeq(<<HttpFile, ScreenshotFile>>, LAMBDA n : dir[n].st = "ok")

\* a stretch of the handler of request a, from one await to the next; threw:
\* the awaited service call rejected
Step(a, from, to, name, threw) ==
    /\ pc[a] = from
    /\ pc' = [pc EXCEPT ![a] = to]
    /\ lastOp' = Op(name, a, threw)
    /\ NoResult
    /\ UNCHANGED <<verificationLog, logged, envSteps, otsEnabled, http, browserSvc, runs>>

At(a, from, to, name) == Step(a, from, to, name, FALSE)

\* the request runs alone: no other request is served beside it
Alone == \A b \in Acq \ SvcAcq : pc[b] = "off"

\* Inputs of the requests: the capture under study takes every input, a
\* request running beside it takes one (no PDF, screenshot taken,
\* calendars accepting).  Malformed URLs, errors of the HTTP capture,
\* navigation failures and a browser that cannot be launched are inputs of a
\* request that runs alone.
PdfChoices(a) == IF a \in SvcAcq THEN BOOLEAN ELSE {FALSE}
Screenshots(a) == IF a \in SvcAcq THEN {Absent, File(Str("png"))} ELSE {File(Str("png"))}
PipelineAnswers(a) ==
    {[u \in Range(Calendars) |-> r] : r \in IF a \in SvcAcq THEN {"200", "throw"} ELSE {"200"}}
UrlChoices(a) == IF Alone THEN {"valid", "malformed"} ELSE {"valid"}

\* httpResult.errors: none, a failed request, or the redirect limit exceeded
DefaultMaxRedirects == 10
HttpErrorChoices(a) ==
    IF Alone
    THEN {<<>>, <<RequestFailedError(StartUrl)>>, <<MaxRedirectsError(DefaultMaxRedirects)>>}
    ELSE {<<>>}

\* BrowserCaptureService.capture: the screenshot it wrote and the errors it
\* returns, or threw when the browser cannot be launched
BrowserOutcomes(a) ==
    {[shot |-> s,
      errors |-> IF s = Absent THEN <<CaptureError("Screenshot failed")>> ELSE <<>>,
      threw |-> FALSE] : s \in Screenshots(a)}
      \cup IF Alone
           THEN {[shot |-> File(Str("png")),
                  errors |-> <<CaptureError("Navigation failed")>>, threw |-> FALSE],
                 [shot |-> Absent,
                  errors |-> <<CaptureError("Navigation failed"),
                               CaptureError("Screenshot failed")>>, threw |-> FALSE],
                 [shot |-> Absent, errors |-> <<>>, threw |-> TRUE]}
           ELSE {}

\* log('Capture request received'); new URL(dto.url);
\* await createAcquisitionDirectory()
StartCapture(a) ==
    /\ \E url \in UrlChoices(a) :
         IF ValidUrl(url)
         THEN /\ At(a, "idle", "created", "createAcquisitionDirectory")
              /\ \E pdf \in PdfChoices(a) :
                   options' = [options EXCEPT ![a].generatePdf = pdf]
              /\ req' = [req EXCEPT ![a].url = url, ![a].created = TRUE]
         ELSE /\ Step(a, "idle", "rejected", "new URL", TRUE)
              /\ req' = [req EXCEPT ![a].url = url, ![a].response = BadRequest]
              /\ UNCHANGED options
    /\ logger' = log(logger, a, "Capture request received")
    /\ UNCHANGED <<files, manifest, manifestJson>>

\* setAcquisitionLogPath; await httpCaptureService.capture(options)
HttpCapture(a) ==
    /\ At(a, "created", "http", "httpCapture")
    /\ logger' = log(setAcquisitionLogPath(logger, a), a, "Starting HTTP capture phase")
    /\ req' = [req EXCEPT ![a].network = TRUE]
    /\ UNCHANGED <<files, manifest, manifestJson, options>>

\* errors.push(...httpResult.errors); await saveHttpCaptureResults;
\* await browserCaptureService.capture: the screenshot is written unless
\* page.screenshot fails; a rejection is caught and thrown as a 500
BrowserCapture(a) ==
    \E httpErrors \in HttpErrorChoices(a), o \in BrowserOutcomes(a) :
        /\ Step(a, "http", IF o.threw THEN "failed" ELSE "browser",
                "browserCapture", o.threw)
        /\ files' = [files EXCEPT ![a][HttpFile] = File(Str("html")),
                                  ![a][ScreenshotFile] = o.shot]
        /\ logger' =
             LET started == log(logger, a, "Starting browser capture phase")
             IN  IF o.threw THEN log(started, a, "Capture failed") ELSE started
        /\ req' = [req EXCEPT
                      ![a].httpErrors = httpErrors,
                      ![a].errors = @ \o httpErrors,
                      ![a].browserErrors = o.errors,
                      ![a].response = IF o.threw THEN InternalServerError ELSE @]
        /\ UNCHANGED <<manifest, manifestJson, options>>

\* errors.push(...browserResult.errors);
\* await evidenceService.generateManifest(...)
GenerateManifest(a) ==
    /\ At(a, "browser", "generated", "generateManifest")
    /\ manifest' = [manifest EXCEPT ![a] = generateManifest(CapturedNames(files[a]))]
    /\ logger' = log(logger, a, "Generating evidence manifest")
    /\ req' = [req EXCEPT ![a].errors = @ \o req[a].browserErrors]
    /\ UNCHANGED <<files, manifestJson, options>>

\* manifest = await cryptoService.computeArtifactHashes(acquisitionPath, manifest)
HashStep(a, from, to) ==
    /\ At(a, from, to, "computeArtifactHashes")
    /\ manifest' = [manifest EXCEPT ![a] =
                        computeArtifactHashes(@, files[a], {}).manifest]
    /\ logger' = log(logger, a, "Computing cryptographic hashes")
    /\ UNCHANGED <<files, manifestJson, options, req>>

\* FirstPass that does not hash: the manifest goes on as it was generated
FirstPass_Skip(a) ==
    /\ At(a, "generated", "hashed", "computeArtifactHashes")
    /\ logger' = log(logger, a, "Computing cryptographic hashes")
    /\ UNCHANGED <<files, manifest, manifestJson, options, req>>

FirstPass(a) == HashStep(a, "generated", "hashed")

\* await cryptoService.createTimestampProof; manifest.timestampProof = proof;
\* await evidenceService.saveManifest(acquisitionPath, manifest)
StampStep(a) ==
    /\ pc[a] = "hashed"
    /\ pc' = [pc EXCEPT ![a] = "saved"]
    /\ NoResult
    /\ \E answer \in PipelineAnswers(a) :
         LET r == createTimestampProof(manifest[a], otsEnabled, Calendars, answer)
         IN  /\ manifest' = [manifest EXCEPT ![a].timestampProof = r.proof]
             /\ files' = IF r.written
                         THEN [files EXCEPT ![a][OtsFile] = File(r.otsProofData)]
                         ELSE files
             /\ lastOp' = [Op("createTimestampProof", a, FALSE) EXCEPT
                               !.call = [enabled |-> otsEnabled,
                                         answer |-> answer,
                                         requests |-> r.requests,
                                         before |-> files[a][OtsFile],
                                         after |-> files'[a][OtsFile],
                                         proof |-> r.proof]]
    /\ manifestJson' = [manifestJson EXCEPT ![a] = saveManifest(manifest'[a])]
    /\ logger' = log(logger, a, "Creating timestamp proof")
    /\ UNCHANGED <<verificationLog, logged, envSteps, otsEnabled, http, options, req,
                   browserSvc, runs>>

\* await this.logger.persistLogs()
PersistLogs(a) ==
    /\ At(a, "saved", "persisted", "persistLogs")
    /\ files' = persistLogs(logger, files)
    /\ UNCHANGED <<manifest, manifestJson, options, logger, req>>

\* PushAndHash without the hashing pass: the artifact is saved as pushed
PushAndHash_NoRehash(a, from, to, name) ==
    /\ At(a, from, to, "computeArtifactHashes")
    /\ manifest' = [manifest EXCEPT ![a].artifacts = Append(@, NewArtifact(name))]
    /\ manifestJson' = [manifestJson EXCEPT ![a] = saveManifest(manifest'[a])]
    /\ UNCHANGED <<files, options, logger, req>>

\* manifest.artifacts.push(<name>); await computeArtifactHashes;
\* await saveManifest
PushAndHash(a, from, to, name) ==
    /\ At(a, from, to, "computeArtifactHashes")
    /\ manifest' = [manifest EXCEPT ![a] =
          computeArtifactHashes([@ EXCEPT !.artifacts = Append(@, NewArtifact(name))],
                                files[a], {}).manifest]
    /\ manifestJson' = [manifestJson EXCEPT ![a] = saveManifest(manifest'[a])]
    /\ UNCHANGED <<files, options, logger, req>>

LogsPass(a) == PushAndHash(a, "persisted", "savedLogs", LogsFile)

\* the bytes of summary.pdf: a rendering of the manifest it was given
PdfBytes(m) == <<[k |-> "pdf", v |-> m.masterHash]>>

\* pdfPath = await packagingService.createPdfSummary(acquisitionPath, manifest)
CreatePdfSummary(a) ==
    /\ options[a].generatePdf
    /\ At(a, "savedLogs", "pdf", "createPdfSummary")
    /\ files' = [files EXCEPT ![a][PdfFile] = File(PdfBytes(manifest[a]))]
    /\ logger' = log(logger, a, "Generating PDF summary")
    /\ UNCHANGED <<manifest, manifestJson, options, req>>

PdfPass(a) == PushAndHash(a, "pdf", "savedPdf", PdfFile)

\* zipPath = await packagingService.createZipBundle(acquisitionPath, id); the
\* bundle is written beside the artifacts and is not one of them
CreateZipBundle(a) ==
    /\ \/ ~options[a].generatePdf /\ At(a, "savedLogs", "zip", "createZipBundle")
       \/ At(a, "savedPdf", "zip", "createZipBundle")
    /\ logger' = log(logger, a, "Creating ZIP bundle")
    /\ UNCHANGED <<files, manifest, manifestJson, options, req>>

\* this.logger.clearLogEntries(); response = { ... };
\* log('Capture completed successfully'); return response
FinishCapture(a) ==
    /\ At(a, "zip", "done", "return")
    /\ logger' = log(clearLogEntries(logger), a, "Capture completed successfully")
    /\ req' = [req EXCEPT ![a].response = CaptureResponse(manifest[a], req[a].errors)]
    /\ UNCHANGED <<files, manifest, manifestJson, options>>

\* POST /api/verify/hashes for the completed capture under study
VerifyCaptured(a) ==
    /\ a \in SvcAcq
    /\ pc[a] = "done"
    /\ Len(logged[a]) < MaxRuns
    /\ VerifyHashes(a)

InitPipeline ==
    /\ files = [a \in Acq |-> NoDir]
    /\ manifest = [a \in Acq |-> NoManifest]
    /\ otsEnabled = TRUE
    /\ InitCommon

NextPipeline ==
    \E a \in Acq :
        \/ StartCapture(a)
        \/ HttpCapture(a)
        \/ BrowserCapture(a)
        \/ GenerateManifest(a)
        \/ FirstPass(a)
        \/ StampStep(a)
        \/ PersistLogs(a)
        \/ LogsPass(a)
        \/ CreatePdfSummary(a)
        \/ PdfPass(a)
        \/ CreateZipBundle(a)
        \/ FinishCapture(a)
        \/ VerifyCaptured(a)

SpecPipeline == InitPipeline /\ [][NextPipeline]_vars

\* ------------------------- one capture request, every input (SpecCapture)
InitCapture ==
    /\ files = [a \in Acq |-> NoDir]
    /\ manifest = [a \in Acq |-> NoManifest]
    /\ otsEnabled \in BOOLEAN
    /\ pc = [a \in Acq |-> IF a \in SvcAcq THEN "idle" ELSE "off"]
    /\ InitServices

NextCapture ==
    \E a \in SvcAcq :
        \/ StartCapture(a)
        \/ HttpCapture(a)
        \/ BrowserCapture(a)
        \/ GenerateManifest(a)
        \/ FirstPass(a)
        \/ StampStep(a)
        \/ PersistLogs(a)
        \/ LogsPass(a)
        \/ CreatePdfSummary(a)
        \/ PdfPass(a)
        \/ CreateZipBundle(a)
        \/ FinishCapture(a)

SpecCapture == InitCapture /\ [][NextCapture]_vars

\* ------------------------------------ HttpCaptureService.capture (SpecHttp)
MaxRedirectsBound == 2

\* maxRedirects as the caller gives it
MaxRedirectsValues == (0 - 1)..MaxRedirectsBound

svcVars == <<files, manifest, manifestJson, verificationLog, logged, hashResult,
             tsResult, lastOp, envSteps, otsEnabled, pc, options, logger, req,
             browserSvc, runs>>

\* capture(options) up to its first await, or to its return when the loop
\* is not entered
HttpCaptureStart ==
    /\ http.state = "idle"
    /\ \E maxRedirects \in MaxRedirectsValues :
         http' = Iterate([NoHttp EXCEPT !.maxRedirects = maxRedirects])
    /\ UNCHANGED svcVars

\* axios.get ends with a response or throws; capture runs on to the next
\* await or to its return
HttpCaptureHop ==
    /\ http.state = "awaiting"
    /\ \E answer \in Answers :
         LET h == [http EXCEPT !.answers = Append(@, answer)]
         IN  http' = IF answer.kind = "error" THEN OnError(h)
                     ELSE OnResponse(h, answer)
    /\ UNCHANGED svcVars

InitHttp ==
    /\ files = [a \in Acq |-> NoDir]
    /\ manifest = [a \in Acq |-> NoManifest]
    /\ otsEnabled = TRUE
    /\ InitCommon

NextHttp == HttpCaptureStart \/ HttpCaptureHop

SpecHttp == InitHttp /\ [][NextHttp]_vars

\* every call of axios.get ends: it has a timeout
SpecHttpLive == SpecHttp /\ WF_vars(NextHttp)

\* ------------------------------ BrowserCaptureService.capture (SpecBrowser)
\* ensureBrowser up to its await of chromium.launch, or to its return when
\* this.browser is set
ensureBrowser(svc, c) ==
    IF svc.browser = Null
    THEN [svc EXCEPT !.calls[c].pc = "launch"]
    ELSE [svc EXCEPT !.calls[c].browser = svc.browser,
                     !.calls[c].pc = "newContext"]

\* closeBrowser: closes the instance this.browser refers to, if any
closeBrowser(svc) ==
    IF svc.browser = Null THEN svc
    ELSE [svc EXCEPT !.closed = @ \cup {svc.browser[1]}, !.browser = Null]

\* a block of capture whose catch pushes text to errors
Caught(svc, c, to, text) ==
    [svc EXCEPT !.calls[c].errors = Append(@, text), !.calls[c].pc = to]

BrowserStep(c, from, after) ==
    /\ browserSvc.calls[c].pc = from
    /\ browserSvc' \in after
    /\ UNCHANGED <<manifest, manifestJson, verificationLog, logged, hashResult,
                   tsResult, lastOp, envSteps, otsEnabled, pc, options, logger,
                   http, req, runs>>

\* capture(options, outputDir) up to its first await
StartBrowserCapture(c) ==
    /\ ~browserSvc.destroyed
    /\ BrowserStep(c, "idle", {ensureBrowser(browserSvc, c)})
    /\ UNCHANGED files

\* await chromium.launch(...) resolves: this.browser = the new instance and
\* ensureBrowser returns this.browser; or it rejects and capture throws
Launch(c) ==
    /\ LET id == browserSvc.launched + 1
       IN  BrowserStep(c, "launch",
                       {[browserSvc EXCEPT !.launched = id,
                                           !.browser = Some(id),
                                           !.calls[c].browser = Some(id),
                                           !.calls[c].pc = "newContext"],
                        [browserSvc EXCEPT !.calls[c].pc = "threw"]})
    /\ UNCHANGED files

\* await browser.newContext(contextOptions)
NewContext(c) ==
    /\ BrowserStep(c, "newContext",
                   {[browserSvc EXCEPT !.calls[c].context = "open",
                                       !.calls[c].pc = "newPage"],
                    [browserSvc EXCEPT !.calls[c].pc = "threw"]})
    /\ UNCHANGED files

\* await context.newPage(), then the handlers are set, synchronously
NewPage(c) ==
    /\ BrowserStep(c, "newPage",
                   {[browserSvc EXCEPT !.calls[c].page = "open",
                                       !.calls[c].pc = "goto"],
                    [browserSvc EXCEPT !.calls[c].pc = "threw"]})
    /\ UNCHANGED files

\* try { goto, title, waitForTimeout, timing } catch { errors.push }
Navigate(c) ==
    /\ BrowserStep(c, "goto",
                   {[browserSvc EXCEPT !.calls[c].pc = "screenshot"],
                    Caught(browserSvc, c, "screenshot", "Navigation failed")})
    /\ UNCHANGED files

\* try { page.screenshot } catch { errors.push }
Screenshot(c) ==
    \/ /\ BrowserStep(c, "screenshot",
                      {[browserSvc EXCEPT !.calls[c].pc = "dom"]})
       /\ files' = [files EXCEPT ![IF c = "c1" THEN "A" ELSE "B"][ScreenshotFile] =
                                      File(Str("png"))]
    \/ /\ BrowserStep(c, "screenshot",
                      {Caught(browserSvc, c, "dom", "Screenshot failed")})
       /\ UNCHANGED files

\* try { page.content, writeFile } catch { errors.push }; browser-dom.html is
\* not among the files of the model's directory
DomSnapshot(c) ==
    /\ BrowserStep(c, "dom",
                   {[browserSvc EXCEPT !.calls[c].pc = "metadata"],
                    Caught(browserSvc, c, "metadata", "DOM snapshot failed")})
    /\ UNCHANGED files

\* await page.evaluate(() => navigator.userAgent)
Metadata(c) ==
    /\ BrowserStep(c, "metadata",
                   {[browserSvc EXCEPT !.calls[c].pc = "closePage"],
                    [browserSvc EXCEPT !.calls[c].pc = "threw"]})
    /\ UNCHANGED files

\* await page.close()
ClosePage(c) ==
    /\ BrowserStep(c, "closePage",
                   {[browserSvc EXCEPT !.calls[c].page = "closed",
                                       !.calls[c].pc = "closeContext"],
                    [browserSvc EXCEPT !.calls[c].pc = "threw"]})
    /\ UNCHANGED files

\* await context.close(); return result
CloseContext(c) ==
    /\ BrowserStep(c, "closeContext",
                   {[browserSvc EXCEPT !.calls[c].context = "closed",
                                       !.calls[c].pc = "returned"]})
    /\ UNCHANGED files

\* onModuleDestroy, once no capture is running
OnModuleDestroy ==
    /\ ~browserSvc.destroyed
    /\ \A c \in Calls : browserSvc.calls[c].pc \in {"idle", "returned", "threw"}
    /\ browserSvc' = [closeBrowser(browserSvc) EXCEPT !.destroyed = TRUE]
    /\ UNCHANGED <<manifest, manifestJson, verificationLog, logged, hashResult,
                   tsResult, lastOp, envSteps, otsEnabled, pc, options, logger,
                   http, req, runs>>
    /\ UNCHANGED files

InitBrowser ==
    /\ files = [a \in Acq |-> NoDir]
    /\ manifest = [a \in Acq |-> NoManifest]
    /\ otsEnabled = TRUE
    /\ InitCommon

NextBrowser ==
    \/ \E c \in Calls :
         \/ StartBrowserCapture(c)
         \/ Launch(c)
         \/ NewContext(c)
         \/ NewPage(c)
         \/ Navigate(c)
         \/ Screenshot(c)
         \/ DomSnapshot(c)
         \/ Metadata(c)
         \/ ClosePage(c)
         \/ CloseContext(c)
    \/ OnModuleDestroy

SpecBrowser == InitBrowser /\ [][NextBrowser]_vars

\* --------------------- overlapping runs of VerificationService (SpecOverlap)
\* verifyHashes / verifyTimestamp from the call to the await of readFile in
\* logVerification: the manifest is loaded, the result computed and the entry
\* built.  logged records the entries in the order they were built.
StartRun(r, a) ==
    /\ HandedOver(a)
    /\ runs[r].pc \in {"idle", "done"}
    /\ Len(logged[a]) < MaxLogRuns
    /\ LET m == loadManifest(manifestJson[a])
           h == verifyHashes(m, files[a])
           t == verifyTimestamp(m, files[a])
           entry == [timestamp |-> Len(logged[a]) + 1,
                     action |-> IF r = "hashes" THEN "hash_verification"
                                ELSE "timestamp_verification",
                     result |-> IF r = "hashes" THEN h.overallStatus ELSE t.status]
       IN  /\ runs' = [runs EXCEPT ![r] = [pc |-> "read", entry |-> entry,
                                           existingLog |-> <<>>]]
           /\ logged' = [logged EXCEPT ![a] = Append(@, entry)]
           /\ hashResult' = IF r = "hashes" THEN h ELSE hashResult
           /\ tsResult' =
                IF r = "hashes" THEN tsResult
                ELSE [status |-> t.status,
                      stampedHash |-> t.manifest.timestampProof.stampedHash,
                      errorMessage |-> IF t.status = "error" THEN t.message ELSE "",
                      manifest |-> t.manifest,
                      structural |-> [status |-> t.status, message |-> t.message,
                                      details |-> t.details]]
    /\ UNCHANGED <<files, manifest, manifestJson, verificationLog, lastOp, envSteps,
                   otsEnabled, pc, options, logger, http, req, browserSvc>>

\* try { content = await readFile; existingLog = JSON.parse(content) } catch {}
\* existingLog.push(entry), up to the await of writeFile
ReadLog(r, a) ==
    /\ runs[r].pc = "read"
    /\ runs' = [runs EXCEPT
                   ![r].existingLog = Append(ExistingLog(verificationLog[a]),
                                             runs[r].entry),
                   ![r].pc = "write"]
    /\ UNCHANGED <<files, manifest, manifestJson, verificationLog, logged, hashResult,
                   tsResult, lastOp, envSteps, otsEnabled, pc, options, logger,
                   http, req, browserSvc>>

\* await writeFile(logPath, JSON.stringify(existingLog)); the run returns
WriteLog(r, a) ==
    /\ runs[r].pc = "write"
    /\ verificationLog' = [verificationLog EXCEPT ![a] =
                              [st |-> IF @.st = "absent" THEN "ok" ELSE @.st,
                               items |-> runs[r].existingLog]]
    /\ runs' = [runs EXCEPT ![r].pc = "done"]
    /\ lastOp' = Op(IF r = "hashes" THEN "verifyHashes" ELSE "verifyTimestamp",
                    a, FALSE)
    /\ UNCHANGED <<files, manifest, manifestJson, logged, hashResult, tsResult,
                   envSteps, otsEnabled, pc, options, logger, http, req, browserSvc>>

NextOverlap ==
    \E a \in SvcAcq :
        \/ (\A r \in Runs : runs[r].pc \in {"idle", "done"}) /\ ComputeArtifactHashes(a)
        \/ (\A r \in Runs : runs[r].pc \in {"idle", "done"}) /\ CreateTimestampProof(a)
        \/ (\A r \in Runs : runs[r].pc \in {"idle", "done"}) /\ SaveManifest(a)
        \/ \E r \in Runs : StartRun(r, a)
        \/ \E r \in Runs : ReadLog(r, a)
        \/ \E r \in Runs : WriteLog(r, a)

SpecOverlap == InitLog /\ [][NextOverlap]_vars

\* =================================================================== claims
AfterHashPass(a) == lastOp.op = "computeArtifactHashes" /\ lastOp.acq = a
AfterVerifyHashes(a) == lastOp.op = "verifyHashes" /\ lastOp.acq = a
Verified(a) == loadManifest(manifestJson[a])

\* C1: after every call of computeArtifactHashes, whatever the directory holds,
\* masterHash.value is SHA-256 of the concatenation, without delimiter, of the
\* sha256 fields of all artifacts in artifact-list order.
C1_MasterHashOverAllArtifacts ==
    \A a \in Acq :
        AfterHashPass(a) =>
            manifest[a].masterHash = hashString(Join(Hashes(manifest[a].artifacts)))

\* the bytes of f, and of no other artifact file, differ from what the hashing
\* pass that produced the verified manifest read
TamperedOnly(a, f) ==
    /\ Verified(a).seen[f].st = "ok"
    /\ files[a][f].st = "ok"
    /\ files[a][f].data # Verified(a).seen[f].data
    /\ \A g \in Range(Names(Verified(a).artifacts)) \ {f} :
           files[a][g] = Verified(a).seen[g]

\* C2: when the bytes of a single artifact file were changed after the hashing
\* pass, verifyHashes reports that file as 'fail', the master hash as 'fail'
\* and the overall status as 'fail'.
C2_TamperDetected ==
    \A a \in Acq :
        AfterVerifyHashes(a) =>
            \A i \in 1..Len(Verified(a).artifacts) :
                TamperedOnly(a, Verified(a).artifacts[i].filename) =>
                    /\ Len(hashResult.files) >= i
                    /\ hashResult.files[i].status = "fail"
                    /\ hashResult.masterHash.status = "fail"
                    /\ hashResult.overallStatus = "fail"

C2_Witness ==
    \E a \in Acq :
        /\ AfterVerifyHashes(a)
        /\ \E i \in 1..Len(Verified(a).artifacts) :
               /\ TamperedOnly(a, Verified(a).artifacts[i].filename)
               /\ hashResult.files[i].status = "fail"
               /\ hashResult.overallStatus = "fail"

\* no artifact file differs from what the last hashing pass of the capture read
Untouched(a) ==
    \A f \in Range(Names(Verified(a).artifacts)) : files[a][f] = Verified(a).seen[f]

\* C3: hash verification of an acquisition that the capture pipeline produced
\* and whose artifact files nothing changed since reports every file, the
\* master hash and the overall status as 'pass'.
C3_RoundTrip ==
    \A a \in Acq :
        (AfterVerifyHashes(a) /\ pc[a] = "done" /\ Untouched(a)) =>
            /\ hashResult.overallStatus = "pass"
            /\ hashResult.masterHash.status = "pass"
            /\ \A i \in 1..Len(hashResult.files) : hashResult.files[i].status = "pass"

\* C4: an artifact file that is absent or unreadable when verifyHashes runs is
\* reported as 'missing' with an empty actualHash, the overall status is
\* 'fail', and every other artifact is still checked.
C4_MissingDetected ==
    \A a \in Acq :
        AfterVerifyHashes(a) =>
            /\ Len(hashResult.files) = Len(Verified(a).artifacts)
            /\ \A i \in 1..Len(Verified(a).artifacts) :
                   LET artifact == Verified(a).artifacts[i]
                       f == files[a][artifact.filename]
                       r == hashResult.files[i]
                   IN  /\ r.filename = artifact.filename
                       /\ f.st # "ok" =>
                              /\ r.status = "missing"
                              /\ r.actualHash = EmptyString
                              /\ hashResult.overallStatus = "fail"
                       /\ f.st = "ok" =>
                              /\ r.actualHash = hashFile(f)
                              /\ r.status = IF hashFile(f) = artifact.sha256
                                            THEN "pass" ELSE "fail"

C4_Witness ==
    \E a \in Acq :
        /\ AfterVerifyHashes(a)
        /\ Len(hashResult.files) >= 2
        /\ hashResult.files[1].status = "missing"
        /\ hashResult.files[2].status = "pass"
        /\ hashResult.overallStatus = "fail"

\* C5: the overall status of verifyHashes is 'pass' exactly when every file
\* status is 'pass' and the master-hash status is 'pass'.
C5_OverallIffAllPass ==
    \A a \in Acq :
        AfterVerifyHashes(a) =>
            (hashResult.overallStatus = "pass"
                <=> /\ \A i \in 1..Len(hashResult.files) :
                           hashResult.files[i].status = "pass"
                    /\ hashResult.masterHash.status = "pass")

\* a missing file is all that keeps the overall status from 'pass'
C5_Witness ==
    \E a \in Acq :
        /\ AfterVerifyHashes(a)
        /\ hashResult.masterHash.status = "pass"
        /\ \E i \in 1..Len(hashResult.files) : hashResult.files[i].status = "missing"
        /\ hashResult.overallStatus = "fail"

\* the artifact list of manifest.json is not in the order the hashing pass left
Reordered(a) ==
    /\ Len(Verified(a).artifacts) >= 2
    /\ Names(Verified(a).artifacts) # Names(Verified(a).sealed)

\* C6 as stated: every reordering, other than the identity, of the artifacts of
\* a manifest with two or more artifacts makes hash verification fail.
C6_AnyReorderFails ==
    \A a \in Acq :
        (AfterVerifyHashes(a) /\ Reordered(a)) => hashResult.overallStatus = "fail"

\* C6 amended: a reordering that changes the sequence of the stored sha256
\* values makes hash verification fail.
C6_ReorderOfDistinctHashesFails ==
    \A a \in Acq :
        (/\ AfterVerifyHashes(a)
         /\ Reordered(a)
         /\ Hashes(Verified(a).artifacts) # Hashes(Verified(a).sealed))
            => hashResult.overallStatus = "fail"

\* every file passes and the master hash alone reveals the reordering
C6_Witness ==
    \E a \in Acq :
        /\ AfterVerifyHashes(a)
        /\ Reordered(a)
        /\ Hashes(Verified(a).artifacts) # Hashes(Verified(a).sealed)
        /\ \A i \in 1..Len(hashResult.files) : hashResult.files[i].status = "pass"
        /\ hashResult.masterHash.status = "fail"
        /\ hashResult.overallStatus = "fail"

Sizes(arts) == [i \in 1..Len(arts) |-> arts[i].sizeBytes]

\* C7: a hashing pass that directly follows a hashing pass of the same
\* manifest, the directory unmodified, leaves every sha256, every sizeBytes
\* and the master hash as the first pass set them.
C7_Idempotent ==
    [][\A a \in Acq :
          (lastOp'.op = "computeArtifactHashes" /\ lastOp'.acq = a /\ lastOp'.again)
              => /\ Hashes(manifest'[a].artifacts) = Hashes(manifest[a].artifacts)
                 /\ Sizes(manifest'[a].artifacts) = Sizes(manifest[a].artifacts)
                 /\ manifest'[a].masterHash = manifest[a].masterHash]_vars

C7_Witness ==
    \E a \in Acq :
        /\ AfterHashPass(a)
        /\ lastOp.again
        /\ \E i \in 1..Len(manifest[a].artifacts) :
               IsHexDigest(manifest[a].artifacts[i].sha256)
        /\ \E i \in 1..Len(manifest[a].artifacts) :
               ~IsHexDigest(manifest[a].artifacts[i].sha256)

\* C8: a file that cannot be read does not abort the hashing pass: the pass
\* returns normally, that artifact's sha256 encodes the error, every artifact
\* whose file can be read has its digest, and masterHash.value is set.
C8_ReadFailureDoesNotAbort ==
    \A a \in Acq :
        AfterHashPass(a) =>
            /\ ~lastOp.threw
            /\ IsHexDigest(manifest[a].masterHash)
            /\ \A i \in 1..Len(manifest[a].artifacts) :
                   LET artifact == manifest[a].artifacts[i]
                       f == manifest[a].seen[artifact.filename]
                   IN  /\ f.st # "ok" =>
                              /\ artifact.sha256 = ErrorHash(ReadError(f))
                              /\ SubSeq(artifact.sha256, 1, 1) = Str("ERROR: ")
                       /\ (f.st = "ok" /\ files[a][artifact.filename] = f) =>
                              artifact.sha256 = hashFile(f)

\* the first artifact could not be read and a later one was hashed
C8_Witness ==
    \E a \in Acq :
        /\ AfterHashPass(a)
        /\ ~lastOp.threw
        /\ Len(manifest[a].artifacts) >= 2
        /\ manifest[a].seen[manifest[a].artifacts[1].filename].st # "ok"
        /\ IsHexDigest(manifest[a].artifacts[2].sha256)
        /\ IsHexDigest(manifest[a].masterHash)

\* C9: verification-log.json holds one entry per verification run, in run
\* order: no run removes or changes an entry logged before it, whatever state
\* it finds the log file in.
C9_LogAppendOnly ==
    \A a \in Acq : Entries(verificationLog[a]) = logged[a]

\* C10: verifyHashes and verifyTimestamp change no artifact file and no
\* manifest.json, and leave the hashes of the manifest they loaded as they
\* were; verification-log.json is the only file they write.
C10_VerificationReadOnly ==
    [][\A a \in Acq :
          (lastOp'.acq = a /\ lastOp'.op \in {"verifyHashes", "verifyTimestamp"})
              => /\ files' = files
                 /\ manifestJson' = manifestJson
                 /\ manifest' = manifest
                 /\ lastOp'.op = "verifyHashes" =>
                        hashResult'.manifest = loadManifest(manifestJson[a])
                 /\ lastOp'.op = "verifyTimestamp" =>
                        tsResult'.manifest = loadManifest(manifestJson[a])]_vars

\* a hash verification found a changed file, and logged its run
C10_Witness ==
    \E a \in Acq :
        /\ AfterVerifyHashes(a)
        /\ hashResult.overallStatus = "fail"
        /\ \E i \in 1..Len(hashResult.files) : hashResult.files[i].status = "fail"
        /\ Len(verificationLog[a].items) >= 1

\* ------------------------------------------------ Timestamp Proof Protocol
AfterStamp(a) ==
    lastOp.op = "createTimestampProof" /\ lastOp.acq = a /\ lastOp.call # NoCall

IsPrefix(s, t) == Len(s) <= Len(t) /\ s = SubSeq(t, 1, Len(s))

\* the position in the configured list of the first calendar that answers 200
FirstSuccess(c, k) ==
    /\ c.enabled
    /\ k \in 1..Len(Calendars)
    /\ c.answer[Calendars[k]] = "200"
    /\ \A j \in 1..(k - 1) : c.answer[Calendars[j]] # "200"

\* C16: createTimestampProof posts to the calendars in configured order, and
\* to none after the first that answered with HTTP 200.
C16_FirstSuccessWins ==
    \A a \in Acq :
        AfterStamp(a) =>
            LET c == lastOp.call
            IN  /\ IsPrefix(c.requests, Calendars)
                /\ \A i \in 1..(Len(c.requests) - 1) :
                       c.answer[c.requests[i]] # "200"

\* the first calendar answers 200, the second would have too and is not asked
C16_Witness ==
    \E a \in Acq :
        /\ AfterStamp(a)
        /\ lastOp.call.enabled
        /\ \A u \in Range(Calendars) : lastOp.call.answer[u] = "200"
        /\ lastOp.call.requests = <<Calendars[1]>>

\* the bytes of the proof file after the magic prefix, the tag and the digest
CalendarBytes(data) == SubSeq(data, MagicLen + 3, Len(data))

\* C17: when calendar k is the first to answer 200, the proof returned is
\* 'pending' and the proof file embeds the response of calendar k and of no
\* other.
C17_Failover ==
    \A a \in Acq :
        AfterStamp(a) =>
            \A k \in 1..Len(Calendars) :
                FirstSuccess(lastOp.call, k) =>
                    /\ lastOp.call.proof.status = "pending"
                    /\ lastOp.call.after.st = "ok"
                    /\ lastOp.call.after.data =
                           magicBytes \o hashType
                             \o FromHex(lastOp.call.proof.stampedHash)
                             \o CalendarBody(Calendars[k])
                    /\ CalendarBytes(lastOp.call.after.data) = CalendarBody(Calendars[k])

\* the first calendar answered with another 2xx status, the second with 200
C17_Witness ==
    \E a \in Acq :
        /\ AfterStamp(a)
        /\ FirstSuccess(lastOp.call, 2)
        /\ lastOp.call.answer[Calendars[1]] = "204"
        /\ lastOp.call.requests = Calendars
        /\ CalendarBytes(files[a][OtsFile].data) = CalendarBody(Calendars[2])

\* C18: when no calendar answers 200 the call returns normally with status
\* 'error' and an error message and writes no proof file; after any call the
\* proof file exists exactly when the status returned is 'pending'.
C18_AllFail ==
    \A a \in Acq :
        AfterStamp(a) =>
            LET c == lastOp.call
            IN  /\ (c.enabled /\ \A u \in Range(Calendars) : c.answer[u] # "200") =>
                       /\ ~lastOp.threw
                       /\ c.proof.status = "error"
                       /\ c.proof.errorMessage # ""
                       /\ c.after = Absent
                /\ c.after.st = "ok" <=> c.proof.status = "pending"
                /\ files[a][OtsFile] = c.after

C18_Witness ==
    \E a \in Acq :
        /\ AfterStamp(a)
        /\ lastOp.call.enabled
        /\ lastOp.call.requests = Calendars
        /\ lastOp.call.answer[Calendars[1]] = "throw"
        /\ lastOp.call.answer[Calendars[2]] = "204"
        /\ lastOp.call.proof.status = "error"
        /\ files[a][OtsFile] = Absent

\* C19: with the protocol disabled the call returns status 'error' and an
\* empty calendarUrls list, posts to no calendar and writes no proof file.
C19_Disabled ==
    \A a \in Acq :
        (AfterStamp(a) /\ ~lastOp.call.enabled) =>
            /\ lastOp.call.proof.status = "error"
            /\ lastOp.call.proof.calendarUrls = <<>>
            /\ lastOp.call.requests = <<>>
            /\ lastOp.call.after = lastOp.call.before
            /\ lastOp.call.after = Absent

\* the calendars would have answered 200
C19_Witness ==
    \E a \in Acq :
        /\ AfterStamp(a)
        /\ ~lastOp.call.enabled
        /\ \A u \in Range(Calendars) : lastOp.call.answer[u] = "200"
        /\ manifest[a].timestampProof.status = "error"

\* C22: the calendarUrls of the proof that createTimestampProof returns are
\* the calendars the call posted to, in the order of the posts; a calendar
\* that received no request is not among them.
C22_CalendarUrlsAttempted ==
    \A a \in Acq :
        AfterStamp(a) => lastOp.call.proof.calendarUrls = lastOp.call.requests

AfterVerifyTimestamp(a) == lastOp.op = "verifyTimestamp" /\ lastOp.acq = a

\* the file begins with the 31 magic bytes
HasMagicPrefix(data) ==
    /\ Len(data) >= Len(magicBytes)
    /\ \A i \in 1..Len(magicBytes) : data[i] = magicBytes[i]

\* C20: the structural verdict is 'error' when the manifest has no timestamp
\* proof or the proof file cannot be read, 'invalid' when the file can be read
\* and does not begin with the 31 magic bytes (a shorter file included), and
\* 'pending', with the manifest's stamped hash and calendar list in the
\* details, when it does.
C20_StructuralVerdict ==
    \A a \in Acq :
        AfterVerifyTimestamp(a) =>
            LET proof == Verified(a).timestampProof
                readable == /\ proof.present
                            /\ proof.proofFile \in AllFiles
                            /\ files[a][proof.proofFile].st = "ok"
                v == tsResult.structural
            IN  /\ v.status \in {"error", "invalid", "pending"}
                /\ v.status = "error" <=> ~readable
                /\ v.status = "invalid" <=>
                       readable /\ ~HasMagicPrefix(files[a][proof.proofFile].data)
                /\ v.status = "pending" <=>
                       readable /\ HasMagicPrefix(files[a][proof.proofFile].data)
                /\ v.status = "pending" =>
                       /\ v.details.filled
                       /\ v.details.stampedHash = proof.stampedHash
                       /\ v.details.calendarUrls = proof.calendarUrls
                /\ tsResult.status = v.status

\* a proof file of fewer than 31 bytes
C20_Witness ==
    \E a \in Acq :
        /\ AfterVerifyTimestamp(a)
        /\ files[a][OtsFile].st = "ok"
        /\ Len(files[a][OtsFile].data) < MagicLen
        /\ tsResult.structural.status = "invalid"

\* -------------------------------------- Redirect-Following Capture Engine
Last(seq) == seq[Len(seq)]

\* a response that redirects: a redirect status and a Location to follow
RedirectAnswer(answer) ==
    /\ answer.kind = "response"
    /\ answer.status \in {301, 302, 303, 307, 308}
    /\ answer.location # Null
    /\ answer.location[1].kind # "empty"

IsMaxRedirectsError(e) == e.text = "Maximum redirects exceeded"

\* C11: when maxRedirects >= 0 and the target answered every request with a
\* redirect, the chain returned has at most maxRedirects + 2 hops and the
\* errors list holds a 'Maximum redirects' message.
C11_RedirectBound ==
    (/\ http.state = "returned"
     /\ http.maxRedirects >= 0
     /\ \A i \in 1..Len(http.answers) : RedirectAnswer(http.answers[i]))
        => /\ Len(http.result.redirectChain) <= http.maxRedirects + 2
           /\ \E i \in 1..Len(http.result.errors) :
                  IsMaxRedirectsError(http.result.errors[i])

\* the response to which capture reacts in this step
Reacts == http.state = "awaiting" /\ Last(http'.answers).kind = "response"
FollowsUp == http'.state = "awaiting" /\ Len(http'.requests) = Len(http.requests) + 1
EndsAsFinal ==
    /\ http'.state = "returned"
    /\ http'.finalResponse = Some(Last(http'.answers))
    /\ http'.errors = http.errors
    /\ http'.requests = http.requests
    /\ Last(http'.result.redirectChain).statusCode = Last(http'.answers).status

\* C12 as stated: a response leads to a follow-up request exactly when its
\* status is one of 301, 302, 303, 307, 308 and it carries a Location header;
\* every other response ends the chain as the final response and adds no
\* error.
C12_FollowUpIffRedirect ==
    [][Reacts =>
          LET answer == Last(http'.answers)
              redirect == isRedirectStatus(answer.status) /\ answer.location # Null
          IN  /\ FollowsUp <=> redirect
              /\ ~redirect => EndsAsFinal]_vars

\* C12 amended: a response leads to a follow-up request exactly when its
\* status is one of 301, 302, 303, 307, 308, it carries a Location header
\* that is not empty and resolves to a URL, and the redirect count stays
\* within maxRedirects; a response with another status or without a
\* (non-empty) Location ends the chain as the final response and adds no
\* error.
C12_FollowUpIffRedirectWithinLimit ==
    [][Reacts =>
          LET answer == Last(http'.answers)
              redirect == /\ answer.status \in {301, 302, 303, 307, 308}
                          /\ answer.location # Null
                          /\ answer.location[1].kind # "empty"
          IN  /\ FollowsUp <=> /\ redirect
                                /\ answer.location[1].kind # "malformed"
                                /\ http.redirectCount + 1 <= http.maxRedirects
              /\ FollowsUp => Last(http'.requests) =
                                  Resolve(answer.location[1], http.currentUrl)
              /\ ~redirect => EndsAsFinal]_vars

\* a redirect status without Location after a redirect that was followed
C12_Witness ==
    /\ http.state = "returned"
    /\ Len(http.answers) = 2
    /\ RedirectAnswer(http.answers[1])
    /\ http.answers[2].status = 301
    /\ http.answers[2].location = Null
    /\ http.finalResponse = Some(http.answers[2])
    /\ http.errors = <<>>

\* C13: the hops of a returned chain are in the order of the requests, and
\* the last hop is a response that is no redirect or a failure record.
C13_LastHopFinalOrFailure ==
    (http.state = "returned" /\ http.result.redirectChain # <<>>) =>
        LET chain == http.result.redirectChain
            last == Last(chain)
        IN  /\ \A i \in 1..Len(http.requests) : chain[i].requestUrl = http.requests[i]
            /\ \/ last.statusCode = 0
               \/ ~(last.statusCode \in {301, 302, 303, 307, 308}
                      /\ last.locationHeader # Null)

\* C14: a request that fails in transport is not thrown: capture appends a
\* hop with status 0, no headers, null locationHeader and null bodySize,
\* appends an error and returns without a further request.
C14_TransportFailure ==
    [][(http.state = "awaiting" /\ Last(http'.answers).kind = "error") =>
          /\ http'.state = "returned"
          /\ http'.requests = http.requests
          /\ Len(http'.redirectChain) = Len(http.redirectChain) + 1
          /\ SubSeq(http'.redirectChain, 1, Len(http.redirectChain)) = http.redirectChain
          /\ Last(http'.redirectChain).requestUrl = Last(http.requests)
          /\ Last(http'.redirectChain).statusCode = 0
          /\ Last(http'.redirectChain).headers = EmptyHeaders
          /\ Last(http'.redirectChain).locationHeader = Null
          /\ Last(http'.redirectChain).bodySize = Null
          /\ Len(http'.errors) = Len(http.errors) + 1
          /\ SubSeq(http'.errors, 1, Len(http.errors)) = http.errors
          /\ ~IsMaxRedirectsError(Last(http'.errors))
          /\ http'.result.redirectChain = http'.redirectChain
          /\ http'.result.errors = http'.errors]_vars

\* the second request failed
C14_Witness ==
    /\ http.state = "returned"
    /\ Len(http.answers) = 2
    /\ http.answers[2].kind = "error"
    /\ Len(http.result.redirectChain) = 2
    /\ http.result.redirectChain[2].statusCode = 0
    /\ Len(http.result.errors) = 1

\* C15: when a followed redirect takes the count beyond maxRedirects, capture
\* returns with exactly one 'Maximum redirects' error, no request beyond the
\* maxRedirects + 1 made, and the URL, status and headers of the last hop as
\* the final ones.
C15_SoftLimit ==
    (/\ http.state = "returned"
     /\ http.redirectCount > 0
     /\ http.redirectCount > http.maxRedirects) =>
        LET r == http.result
            last == Last(r.redirectChain)
        IN  /\ Cardinality({i \in 1..Len(r.errors) : IsMaxRedirectsError(r.errors[i])}) = 1
            /\ Len(http.requests) = http.maxRedirects + 1
            /\ Len(http.answers) = Len(http.requests)
            /\ last.requestUrl = Last(http.requests)
            /\ last.statusCode = Last(http.answers).status
            /\ r.finalUrl = last.requestUrl
            /\ r.finalStatusCode = last.statusCode
            /\ r.finalHeaders = last.headers

\* two redirects with maxRedirects = 1
C15_Witness ==
    /\ http.state = "returned"
    /\ http.maxRedirects = 1
    /\ http.redirectCount = 2
    /\ Len(http.result.redirectChain) = 2
    /\ http.result.finalStatusCode \in {301, 302, 303, 307, 308}
    /\ http.result.finalUrl # http.currentUrl

Running(a) == pc[a] \notin {"off", "idle", "done", "rejected", "failed"}
ReportedErrors(a) == req[a].httpErrors # <<>> \/ req[a].browserErrors # <<>>

C24_MalformedUrlRejected ==
    \A a \in SvcAcq :
        /\ pc[a] = "rejected" <=> req[a].url = "malformed"
        /\ req[a].url = "malformed" =>
               /\ req[a].response = BadRequest
               /\ req[a].response.status = 400
               /\ ~req[a].response.hasManifest
               /\ ~req[a].created
               /\ ~req[a].network
               /\ files[a] = NoDir
               /\ manifest[a] = NoManifest
               /\ ~manifestJson[a].exists
               /\ ~ENABLED NextCapture

C24_Witness ==
    \E a \in SvcAcq :
        /\ pc[a] = "rejected"
        /\ lastOp.threw
        /\ req[a].url = "malformed"
        /\ req[a].response.status = 400
        /\ files[a] = NoDir

\* C25: capture returns, whatever the target answers, and issues at most
\* maxRedirects + 1 requests.
C25_Terminates ==
    /\ <>(http.state = "returned")
    /\ [](Len(http.requests) <= http.maxRedirects + 1)
    /\ [](http.state = "returned" => Len(http.answers) = Len(http.requests))

\* the target redirected every request, the last two to the same URL
C25_Witness ==
    /\ http.state = "returned"
    /\ http.maxRedirects = 2
    /\ Len(http.requests) = 3
    /\ http.requests[2] = http.requests[3]
    /\ \A i \in 1..3 : RedirectAnswer(http.answers[i])

\* C26: every request issued has, once answered, exactly one hop in the
\* chain: the chain is as long as the list of requests made, also when the
\* answer is a redirect whose Location cannot be resolved to a URL.
C26_OneHopPerRequest ==
    /\ Len(http.redirectChain) = Len(http.answers)
    /\ http.state = "returned" =>
           Len(http.result.redirectChain) = Len(http.requests)

\* C27: the chain returned is linked: its first hop requests the start URL,
\* every hop but the last has a redirect status and a Location, and every
\* hop after the first requests the Location of the hop before it, resolved
\* against the URL that hop requested.
C27_ChainLinked ==
    (http.state = "returned" /\ http.result.redirectChain # <<>>) =>
        LET chain == http.result.redirectChain
        IN  /\ chain[1].requestUrl = http.originalUrl
            /\ \A i \in 1..(Len(chain) - 1) :
                   /\ chain[i].statusCode \in {301, 302, 303, 307, 308}
                   /\ chain[i].locationHeader # Null
                   /\ ~ResolveThrows(chain[i].locationHeader[1])
                   /\ chain[i + 1].requestUrl =
                          Resolve(chain[i].locationHeader[1], chain[i].requestUrl)

\* the step stamps acquisition a
Stamps(a) == manifest'[a].timestampProof # manifest[a].timestampProof
Saves(a) == manifestJson'[a] # manifestJson[a]
\* the step appends an artifact to a list that was hashed
Appends(a) ==
    /\ Hashed(manifest[a])
    /\ Len(manifest'[a].artifacts) > Len(manifest[a].artifacts)

\* C28: the pipeline creates the timestamp proof of an acquisition once,
\* after the first hashing pass over all captured artifacts and before an
\* artifact is appended; the hash it submits is the master hash of that
\* pass; and a step that appends an artifact hashes the whole list again
\* before the manifest is saved.
C28_StampAfterFirstPass ==
    [][\A a \in SvcAcq :
          /\ Stamps(a) =>
                 /\ ~manifest[a].timestampProof.present
                 /\ manifest'[a].timestampProof.present
                 /\ Finalized(manifest[a])
                 /\ manifest[a].artifacts = manifest[a].sealed
                 /\ Names(manifest[a].artifacts) = CapturedNames(files[a])
                 /\ IsHexDigest(manifest[a].masterHash)
                 /\ manifest[a].masterHash =
                        hashString(Join(Hashes(manifest[a].artifacts)))
                 /\ manifest'[a].timestampProof.stampedHash = manifest[a].masterHash
                 /\ lastOp'.call.proof = manifest'[a].timestampProof
                 /\ lastOp'.call.enabled =>
                        lastOp'.call.requests # <<>>
          /\ Appends(a) =>
                 /\ manifest[a].timestampProof.present
                 /\ Finalized(manifest'[a])
                 /\ manifest'[a].artifacts = manifest'[a].sealed
                 /\ manifest'[a].seen = files[a]
          /\ Saves(a) =>
                 /\ manifest'[a].timestampProof.present
                 /\ Finalized(manifest'[a])
                 /\ manifestJson'[a] = saveManifest(manifest'[a])
          /\ pc'[a] = "done" => manifest'[a].timestampProof.present]_vars

\* the capture is complete: stamped once, two artifacts appended and hashed
C28_Witness ==
    \E a \in SvcAcq :
        /\ pc[a] = "done"
        /\ manifest[a].timestampProof.status = "pending"
        /\ Len(manifest[a].artifacts) = 4
        /\ Names(manifest[a].sealed) = <<HttpFile, ScreenshotFile, LogsFile, PdfFile>>
        /\ manifest[a].timestampProof.stampedHash # manifest[a].masterHash

\* C29: every manifest.json that the pipeline writes holds finalized hashes:
\* no artifact has the placeholder sha256 '', and the hashes and the master
\* hash are those of one hashing pass over the whole artifact list saved.
C29_SavedManifestFinalized ==
    \A a \in SvcAcq :
        manifestJson[a].exists =>
            LET m == manifestJson[a].m
            IN  /\ \A i \in 1..Len(m.artifacts) : m.artifacts[i].sha256 # EmptyString
                /\ m.sealed = m.artifacts
                /\ IsHexDigest(m.masterHash)
                /\ computeArtifactHashes(m, m.seen, {}).manifest = m

\* the manifest saved last lists the two appended artifacts, hashed
C29_Witness ==
    \E a \in SvcAcq :
        /\ manifestJson[a].exists
        /\ lastOp.op = "computeArtifactHashes"
        /\ Names(manifestJson[a].m.artifacts) = <<HttpFile, LogsFile, PdfFile>>
        /\ \A i \in 1..3 : IsHexDigest(manifestJson[a].m.artifacts[i].sha256)
        /\ manifestJson[a].m.artifacts[3].sizeBytes > 0

\* C30: once manifest.json of an acquisition is written, the pipeline writes
\* no manifest.json with another artifact list or master hash, and adds no
\* artifact file to the acquisition directory.
C30_ImmutableOncePersisted ==
    [][\A a \in SvcAcq :
          manifestJson[a].exists =>
              /\ manifestJson'[a].m.artifacts = manifestJson[a].m.artifacts
              /\ manifestJson'[a].m.masterHash = manifestJson[a].m.masterHash
              /\ \A f \in ArtifactFiles :
                     files[a][f].st = "absent" => files'[a][f].st = "absent"]_vars

\* the call c has left capture, by return or by exception, after its context
\* was created
Exited(c) ==
    /\ browserSvc.calls[c].pc \in {"returned", "threw"}
    /\ browserSvc.calls[c].context # "none"

\* C31: on every exit path of BrowserCaptureService.capture after the context
\* has been created (normal return, navigation, screenshot or DOM-snapshot
\* failure, or an exception thrown by a later step) the page and the browser
\* context opened for that capture are closed.
C31_ContextReleased ==
    \A c \in Calls :
        Exited(c) =>
            /\ browserSvc.calls[c].context = "closed"
            /\ browserSvc.calls[c].page # "open"

\* C32: for any interleaving of concurrent capture calls at most one Chromium
\* instance is launched between service start and closeBrowser, and every
\* launched instance is closed by closeBrowser.
C32_BrowserSingleton ==
    /\ browserSvc.launched <= 1
    /\ browserSvc.destroyed => browserSvc.closed = 1..browserSvc.launched

\* the entries that the capture of a logs from setAcquisitionLogPath up to its
\* call of persistLogs
Produced(a) ==
    <<LogEntry(a, "Starting HTTP capture phase"),
      LogEntry(a, "Starting browser capture phase"),
      LogEntry(a, "Generating evidence manifest"),
      LogEntry(a, "Computing cryptographic hashes"),
      LogEntry(a, "Creating timestamp proof")>>

AfterPersistLogs(a) == lastOp.op = "persistLogs" /\ lastOp.acq = a

\* C33: when captures overlap, the logs.json of each acquisition is written
\* into its own directory and holds exactly the entries logged for that
\* acquisition up to its persistLogs call: none is dropped, reset or written
\* into the directory of another acquisition.
C33_LogsPerAcquisition ==
    \A a \in Acq :
        AfterPersistLogs(a) =>
            /\ files[a][LogsFile] = File(Produced(a))
            /\ \A b \in Acq \ {a} :
                   files[b][LogsFile].st = "ok" =>
                       \A i \in 1..Len(files[b][LogsFile].data) :
                           files[b][LogsFile].data[i].v # Str(a)

\* C34: when two verification runs on the same acquisition overlap in time,
\* the entries of both runs are in verification-log.json after both have
\* completed.
C34_NoLostUpdate ==
    \A a \in SvcAcq :
        (\A r \in Runs : runs[r].pc = "done") =>
            \A r \in Runs :
                \E i \in 1..Len(verificationLog[a].items) :
                    verificationLog[a].items[i] = runs[r].entry

\* createTimestampProof has just returned a proof for a that a calendar accepted
StampSucceeded(a) == AfterStamp(a) /\ lastOp.call.proof.status = "pending"

\* C35: the file that a successful createTimestampProof writes is the 31 magic
\* bytes, the tag byte 0x08, the raw bytes of the stamped master hash and the
\* calendar response verbatim, in this order; verifyTimestamp of that file,
\* unmodified, with the manifest carrying the returned proof is 'pending'.
C35_ProofRoundTrip ==
    \A a \in Acq :
        StampSucceeded(a) =>
            LET c == lastOp.call
            IN  /\ c.after.st = "ok"
                /\ files[a][OtsFile] = c.after
                /\ Len(magicBytes) = 31
                /\ IsHexDigest(c.proof.stampedHash)
                /\ \E k \in 1..Len(Calendars) :
                       /\ FirstSuccess(c, k)
                       /\ c.after.data = magicBytes \o Str("08")
                                           \o FromHex(c.proof.stampedHash)
                                           \o CalendarBody(Calendars[k])
                /\ verifyTimestamp([manifest[a] EXCEPT !.timestampProof = c.proof],
                                   files[a]).status = "pending"

\* a proof was written after the first calendar failed and the second accepted
C35_Witness ==
    \E a \in Acq :
        /\ StampSucceeded(a)
        /\ FirstSuccess(lastOp.call, 2)
        /\ files[a][OtsFile].st = "ok"

\* the capture of a has completed: its response is the CaptureResponse
Completed(a) == pc[a] = "done" /\ req[a].response.status = 200

\* C36: at the end of a completed capture the stampedHash of the persisted
\* manifest's timestamp proof equals the masterHash.value of that manifest.
C36_ProofAttestsFinalMasterHash ==
    \A a \in Acq :
        (Completed(a) /\ manifestJson[a].exists) =>
            LET m == loadManifest(manifestJson[a])
            IN  m.timestampProof.present =>
                    m.timestampProof.stampedHash = m.masterHash

\* the sha256 fields that hold a digest, in artifact-list order
DigestsHeld(arts) == SelectSeq(Hashes(arts), IsHexDigest)

\* C37: when a computeArtifactHashes pass ends, the master-hash input is made
\* of the digests that the artifacts' sha256 fields hold, and of nothing else:
\* no digest is included while the sha256 of its artifact holds an 'ERROR: '
\* value, even if the file vanished between being hashed and being stat-ed.
C37_DigestIncludedIffHeld ==
    \A a \in Acq :
        (AfterHashPass(a) /\ ~lastOp.threw) =>
            manifest[a].masterHash =
                hashString(Join(DigestsHeld(manifest[a].artifacts)))

\* C38: every call of HttpCaptureService.capture, for every maxRedirects a
\* caller can supply, returns a redirectChain that is not empty, and its
\* errors list is empty if and only if a final non-redirect response was
\* reached.
C38_EndsInOneOfThreeWays ==
    http.state = "returned" =>
        /\ http.result.redirectChain # <<>>
        /\ (http.result.errors = <<>>) <=> (http.finalResponse # Null)

\* the statuses that this pipeline gives a proof, and a structural verdict
ProofStatuses == {"pending", "error"}
VerdictStatuses == {"pending", "invalid", "error"}

Unconfirmed(proof) ==
    /\ proof.status \in ProofStatuses
    /\ proof.blockHeight = Null
    /\ proof.transactionId = Null

\* C39: every TimestampProof that createTimestampProof returns has status
\* 'pending' or 'error', never 'confirmed', with blockHeight and transactionId
\* null, and so has every proof in a manifest or in manifest.json; the verdict
\* of verifyTimestamp is never 'verified'.
C39_NeverConfirmedHere ==
    \A a \in Acq :
        /\ AfterStamp(a) => Unconfirmed(lastOp.call.proof)
        /\ manifest[a].timestampProof.present => Unconfirmed(manifest[a].timestampProof)
        /\ (manifestJson[a].exists /\ manifestJson[a].m.timestampProof.present) =>
               Unconfirmed(manifestJson[a].m.timestampProof)
        /\ AfterVerifyTimestamp(a) =>
               /\ tsResult.status \in VerdictStatuses
               /\ tsResult.structural.status \in VerdictStatuses

\* a proof that a calendar accepted was verified from its unmodified file
C39_Witness ==
    \E a \in Acq :
        /\ AfterVerifyTimestamp(a)
        /\ tsResult.status = "pending"
        /\ manifestJson[a].m.timestampProof.status = "pending"
        /\ manifestJson[a].m.timestampProof.blockHeight = Null

\* manifests that differ from m in stampedHash and masterHash only
HashVariants(m) ==
    LET hashes == {m.masterHash, hashString(Str("x")), hashString(Str("y"))}
    IN  {[m EXCEPT !.masterHash = h,
                   !.timestampProof.stampedHash =
                       IF m.timestampProof.present THEN s ELSE @] :
            h \in hashes, s \in hashes}

\* directories that differ from dir in the bytes of the proof file after the
\* first 31 only: another embedded digest, another calendar response, nothing
TailVariants(dir) ==
    IF dir[OtsFile].st # "ok" THEN {dir}
    ELSE {[dir EXCEPT ![OtsFile].data = Slice(@, 31) \o tail] :
            tail \in {<<>>,
                      Str("08") \o FromHex(hashString(Str("x"))) \o CalendarBody("cal1"),
                      Str("08") \o FromHex(hashString(Str("y"))) \o CalendarBody("cal2")}}
         \cup {dir}

\* C40: the structural verdict depends only on whether the manifest has a
\* timestamp proof, whether the proof file is readable and on the first 31
\* bytes of the file: a run that agrees with the run just made on these three
\* returns the same status, whatever digest the file embeds and whatever the
\* manifest's stampedHash and masterHash are.
C40_VerdictIgnoresDigests ==
    \A a \in Acq :
        AfterVerifyTimestamp(a) =>
            \A m \in HashVariants(Verified(a)), dir \in TailVariants(files[a]) :
                verifyTimestamp(m, dir).status = tsResult.structural.status

\* a verdict 'pending' for a proof file that embeds no digest at all
C40_Witness ==
    \E a \in Acq :
        /\ AfterVerifyTimestamp(a)
        /\ tsResult.structural.status = "pending"
        /\ files[a][OtsFile].data = magicBytes \o Str("x")

====
